---- MODULE Spec2Model ----
(***************************************************************************)
(* Backup & restore engine with persisted scheduling                       *)
(* (src/lib/backup-manager.js, src/lib/config-manager.js).                 *)
(*                                                                         *)
(* Eight specifications share the module's state:                          *)
(*   SpecBackup   createBackup / compressBackup / restoreBackup            *)
(*   SpecCreate   createBackup over a changing source database             *)
(*   SpecSched    initialize / scheduleBackup / unscheduleBackup           *)
(*   SpecCleanup  listBackups / cleanupOldBackups                          *)
(*   SpecRestore  restoreBackup next to a second restore and a sweep       *)
(*   SpecFire     the schedule operations with the cron firings            *)
(*   SpecLife     the schedule operations over a process restart           *)
(*   SpecOverlap  schedule operations of two callers that overlap          *)
(* An asynchronous method is one action per stretch of code between two    *)
(* awaits; every failure an awaited call can report is a choice of the     *)
(* action.                                                                 *)
(***************************************************************************)
EXTENDS Integers, Sequences, FiniteSets, TLC

VARIABLES
  disk,        \* the backup root: entry name -> [files, mtime]
  srcDb,       \* source database: sequence of [name, docs, indexes]
  nBackups,    \* createBackup calls started (stands for the timestamp)
  bpc,         \* createBackup: position
  bopts,       \* createBackup: options.compress
  bcolls,      \* createBackup: the collections enumerated at line 34
  bidx,        \* createBackup: next collection of the loop
  binfo,       \* createBackup: backupInfo
  bfailed,     \* createBackup: <<i, message>> for each collection i whose snapshot threw
  bresult,     \* createBackup: the value it resolved with
  berr,        \* createBackup: the step whose error it rejected with
  tgtDb,       \* target database: collection name -> number of documents
  nRestores,   \* restoreBackup calls started
  rpc,         \* restoreBackup: position
  rargs,       \* restoreBackup: [path, dropExisting]
  rdir,        \* restoreBackup: backupDir
  rinfo,       \* restoreBackup: backupInfo
  ridx,        \* restoreBackup: next record of the loop
  rrestored,   \* restoreBackup: restoredCollections
  rfailed,     \* restoreBackup: a target database call of this run threw
  rerr,        \* restoreBackup: the step whose error it rejected with
  rfailures,   \* restoreBackup: <<i, step>> for each record i whose restore logged a failure
  rtouched,    \* restoreBackup: names of the target collections it dropped, inserted into or indexed
  rother,      \* a second restoreBackup call running meanwhile: [pc, path]
  scheduledJobs, \* this.scheduledJobs: job id -> [job, cluster, database, pattern, options]
  tasks,       \* the cron tasks created so far: handle -> "running" | "stopped"
  settings,    \* the configuration store's backupSchedules setting, in memory
  cfgFile,     \* the backupSchedules setting as last written to the configuration file
  initCalled,  \* BackupManager.initialize() has been called
  ops,         \* the schedule operations in flight: slot -> call
  closures,    \* what the callback of each cron task captured: handle -> [id, cluster, database, options]
  kept,        \* schedules whose scheduleBackup resolved with no unscheduleBackup since: id -> definition
  firing,      \* the run of a cron callback in hand
  nFires,      \* firings started
  mgr,         \* MongoDBManager.initialize() of the running process: position
  restarted,   \* the process has exited and a new one has started
  cfgRetention, \* the configuration store's backupRetention setting
  cpc,         \* cleanupOldBackups: position
  cargs,       \* cleanupOldBackups: retentionDays
  clisted,     \* cleanupOldBackups: what listBackups returned
  ccands,      \* cleanupOldBackups: oldBackups
  cidx,        \* cleanupOldBackups: next candidate of the loop
  cdeleted,    \* cleanupOldBackups: paths whose deletion succeeded
  cresult      \* cleanupOldBackups: the value it resolved with

backupVars == <<srcDb, nBackups, bpc, bopts, bcolls, bidx, binfo, bfailed, bresult, berr>>
restoreVars == <<tgtDb, nRestores, rpc, rargs, rdir, rinfo, ridx, rrestored, rfailed, rerr,
                 rfailures, rtouched, rother>>
lifeVars == <<firing, nFires, mgr, restarted>>
schedVars == <<scheduledJobs, tasks, settings, cfgFile, initCalled, ops, closures, kept, lifeVars>>
cleanupVars == <<cfgRetention, cpc, cargs, clisted, ccands, cidx, cdeleted, cresult>>
vars == <<disk, backupVars, restoreVars, schedVars, cleanupVars>>

----------------------------------------------------------------------------
(* Bounds *)

\* Collections of the source database
MaxColls == 2

\* Cron tasks created in one run of the process
MaxTasks == 3

\* Firings of cron tasks in one behaviour
MaxFires == 2

\* Entries of the backup root when a retention sweep starts
MaxDiskBackups == 3

----------------------------------------------------------------------------
(* Data *)

None == "none"

\* Collection names of the source database.
CollNames == {"users", "orders", "backup-info"}

ClusterName == "c1"
DbName == "d1"

\* error.message of what a failing driver or filesystem call throws
FindError == "Access denied"
IndexError == "Index listing failed"
WriteError == "Disk full"

\* error.message of what the driver throws when the indexes of a collection
\* that no longer exists are listed
NamespaceError == "ns does not exist"

\* `${collectionName}.json`, as a (base, extension) pair
CollectionFile(collectionName) == <<collectionName, "json">>

\* 'backup-info.json'
MetadataFile == <<"backup-info", "json">>

\* path.join(this.backupDir, backupName), backupName ending in the timestamp n
BackupPath(n) == [base |-> "c1-d1", n |-> n, zip |-> FALSE]

\* `${backupPath}.zip`
ArchivePath(p) == [p EXCEPT !.zip = TRUE]

\* path.join(this.backupDir, 'temp-restore')
TempDir == [base |-> "temp-restore", n |-> 0, zip |-> FALSE]

\* backupPath.endsWith('.zip')
EndsWithZip(p) == p.zip

\* The content of a per-collection export file (its stats, {} when stats()
\* failed, are written and never read back)
CollectionData(c) ==
  [collection |-> c.name, database |-> DbName, cluster |-> ClusterName,
   documents |-> c.docs, indexes |-> c.indexes]

\* JSON.stringify(collectionData).length: grows with the documents and the indexes
StringifyLength(data) == 60 + 25 * data.documents + 30 * data.indexes

\* The record pushed for a collection that was written
SuccessRecord(data) ==
  [name |-> data.collection, documentCount |-> data.documents,
   size |-> StringifyLength(data), indexes |-> data.indexes]

\* FailureRecord with a fixed text in place of the thrown error's message
FailureRecordFixedText(name, message) == [name |-> name, error |-> "Backup failed"]

\* The record pushed by the catch of the collection loop
FailureRecord(name, message) == [name |-> name, error |-> message]

\* A test that takes no record for a Failure record
IsFailureNever(rec) == FALSE

\* collectionInfo.error (line 156): the record is a Failure record
IsFailure(rec) == "error" \in DOMAIN rec

\* backupInfo as created at line 36
NewBackupInfo ==
  [cluster |-> ClusterName, database |-> DbName, timestamp |-> 0,
   collections |-> <<>>, totalDocuments |-> 0, totalSize |-> 0]

EmptyFiles == [f \in {} |-> None]

\* fs.writeFile(file, content): creates or overwrites
WriteFile(files, name, content) ==
  [f \in DOMAIN files \cup {name} |-> IF f = name THEN content ELSE files[f]]

\* An entry added to (or replaced in) the backup root
PutEntry(d, path, entry) ==
  [p \in DOMAIN d \cup {path} |-> IF p = path THEN entry ELSE d[p]]

\* fs.rmdir(path, {recursive: true}) / fs.unlink(path)
RemoveEntry(d, path) == [p \in DOMAIN d \ {path} |-> d[p]]

\* A file JSON.parse rejects
Garbage == [garbage |-> TRUE]

----------------------------------------------------------------------------
(* createBackup, src/lib/backup-manager.js:25-115 *)

\* The source collection a handle db.collection(name) reads
SourceCollection(name) ==
  CHOOSE c \in {srcDb[i] : i \in DOMAIN srcDb} : c.name = name

\* The names of the collections the source database holds
SourceNames == {srcDb[i].name : i \in DOMAIN srcDb}

\* Lines 27-45: name the backup, create its directory, resolve the database and
\* enumerate its collections once.
CreateBackupStart(compress, outcome) ==
  LET n == nBackups + 1
      dir == [files |-> EmptyFiles, mtime |-> 0]
  IN /\ bpc = "idle"
     /\ rpc = "idle"
     /\ nBackups = 0
     /\ nBackups' = n
     /\ bopts' = compress
     /\ bidx' = 1
     /\ bfailed' = {}
     /\ binfo' = NewBackupInfo
     /\ \/ /\ outcome = "mkdirFail"
           /\ disk' = disk
           /\ bpc' = "rejected" /\ berr' = "mkdir" /\ bcolls' = <<>>
        \/ /\ outcome \in {"resolveFail", "listFail"}
           /\ disk' = PutEntry(disk, BackupPath(n), dir)
           /\ bpc' = "rejected" /\ berr' = outcome /\ bcolls' = <<>>
        \/ /\ outcome = "ok"
           /\ disk' = PutEntry(disk, BackupPath(n), dir)
           /\ bcolls' = [i \in DOMAIN srcDb |-> srcDb[i].name]
           /\ bpc' = IF Len(srcDb) = 0 THEN "manifest" ELSE "collections"
           /\ berr' = None
     /\ UNCHANGED <<srcDb, bresult>>

\* PushSuccess that pushes the record and leaves the totals as they are
PushSuccessKeepsTotals(info, data) ==
  [info EXCEPT !.collections = Append(@, SuccessRecord(data))]

\* The collections.push of the try block (line 66) and the totals (73-74)
PushSuccess(info, data) ==
  [info EXCEPT !.collections = Append(@, SuccessRecord(data)),
               !.totalDocuments = @ + data.documents,
               !.totalSize = @ + StringifyLength(data)]

\* PushFailure with a catch block that only logs
PushFailureOnlyLogs(info, name, message) == info

\* The collections.push of the catch block (lines 79-82)
PushFailure(info, name, message) ==
  [info EXCEPT !.collections = Append(@, FailureRecord(name, message))]

\* The collection loop with a catch that rethrows
BackupPcAfterRethrows(failed, last) ==
  IF failed THEN "rejected" ELSE IF last THEN "manifest" ELSE "collections"

\* Where createBackup is after a turn of the loop: the catch of lines 77-83
\* records the failure, so a failed turn goes on like any other.
BackupPcAfter(failed, last) == IF last THEN "manifest" ELSE "collections"

\* Lines 47-84, one turn of the loop: read the documents, the indexes and the
\* statistics, write the export file, push the record; any throw is caught.
\* Of a collection dropped since the enumeration the documents read are none
\* and the listing of the indexes throws.
BackupCollection(outcome) ==
  LET name == bcolls[bidx]
      path == BackupPath(nBackups)
      data == CollectionData(SourceCollection(name))
      message == CASE outcome = "findFail" -> FindError
                   [] outcome = "indexFail" -> IndexError
                   [] outcome = "writeFail" -> WriteError
                   [] OTHER -> NamespaceError
      last == bidx = Len(bcolls)
  IN /\ bpc = "collections"
     /\ \/ /\ outcome \in {"ok", "statsFail"}
           /\ name \in SourceNames
           /\ disk' = [disk EXCEPT ![path].files =
                          WriteFile(@, CollectionFile(name), data)]
           /\ binfo' = PushSuccess(binfo, data)
           /\ bfailed' = bfailed
           /\ bpc' = BackupPcAfter(FALSE, last)
        \/ /\ \/ outcome \in {"findFail", "indexFail", "writeFail"}
              \/ outcome = "ok" /\ name \notin SourceNames
           /\ disk' = disk
           /\ binfo' = PushFailure(binfo, name, message)
           /\ bfailed' = bfailed \cup {<<bidx, message>>}
           /\ bpc' = BackupPcAfter(TRUE, last)
     /\ bidx' = bidx + 1
     /\ UNCHANGED <<srcDb, nBackups, bopts, bcolls, bresult, berr>>

\* Another client of the source database creates a collection while
\* createBackup runs
SourceCreateCollection(name) ==
  /\ bpc \in {"collections", "manifest", "compress", "rmdir"}
  /\ name \notin SourceNames
  /\ name \notin {bcolls[i] : i \in DOMAIN bcolls}
  /\ srcDb' = Append(srcDb, [name |-> name, docs |-> 1, indexes |-> 1])
  /\ UNCHANGED <<disk, nBackups, bpc, bopts, bcolls, bidx, binfo, bfailed, bresult, berr>>

\* Another client of the source database drops a collection while
\* createBackup runs
SourceDropCollection(name) ==
  /\ bpc \in {"collections", "manifest", "compress", "rmdir"}
  /\ name \in SourceNames
  /\ srcDb' = SelectSeq(srcDb, LAMBDA c : c.name # name)
  /\ UNCHANGED <<disk, nBackups, bpc, bopts, bcolls, bidx, binfo, bfailed, bresult, berr>>

\* The value createBackup resolves with (lines 104-110)
BackupResult(n, compress, info) ==
  [name |-> n,
   path |-> IF compress THEN ArchivePath(BackupPath(n)) ELSE BackupPath(n),
   info |-> info,
   size |-> info.totalSize,
   collections |-> Len(info.collections)]

\* Lines 86-88 (and 102-110 without compression): write the manifest.
WriteManifest(ok) ==
  LET path == BackupPath(nBackups)
  IN /\ bpc = "manifest"
     /\ \/ /\ ok
           /\ disk' = [disk EXCEPT ![path].files = WriteFile(@, MetadataFile, binfo)]
           /\ \/ /\ bopts
                 /\ bpc' = "compress"
                 /\ UNCHANGED <<bresult, berr>>
              \/ /\ ~bopts
                 /\ bpc' = "resolved"
                 /\ bresult' = BackupResult(nBackups, FALSE, binfo)
                 /\ berr' = berr
        \/ /\ ~ok
           /\ disk' = disk
           /\ bpc' = "rejected" /\ berr' = "manifest"
           /\ bresult' = bresult
     /\ UNCHANGED <<srcDb, nBackups, bopts, bcolls, bidx, binfo, bfailed>>

\* A createBackup that goes on to remove the directory when the archive failed
CompressBackupRemovesAnyway(ok, partial) ==
  LET path == BackupPath(nBackups)
  IN /\ bpc = "compress"
     /\ disk' = IF ok THEN PutEntry(disk, ArchivePath(path),
                                    [files |-> disk[path].files, mtime |-> 0])
                ELSE IF partial THEN PutEntry(disk, ArchivePath(path),
                                              [files |-> EmptyFiles, mtime |-> 0])
                ELSE disk
     /\ bpc' = "rmdir" /\ berr' = berr
     /\ UNCHANGED <<srcDb, nBackups, bopts, bcolls, bidx, binfo, bfailed, bresult>>

\* compressBackup (lines 117-132) as awaited at line 93: the promise resolves
\* when the output stream closes and rejects on an archive error, which leaves
\* whatever the stream wrote until then.
CompressBackup(ok, partial) ==
  LET path == BackupPath(nBackups)
  IN /\ bpc = "compress"
     /\ \/ /\ ok
           /\ disk' = PutEntry(disk, ArchivePath(path),
                               [files |-> disk[path].files, mtime |-> 0])
           /\ bpc' = "rmdir" /\ berr' = berr
        \/ /\ ~ok
           /\ disk' = IF partial
                        THEN PutEntry(disk, ArchivePath(path),
                                      [files |-> EmptyFiles, mtime |-> 0])
                        ELSE disk
           /\ bpc' = "rejected" /\ berr' = "compress"
     /\ UNCHANGED <<srcDb, nBackups, bopts, bcolls, bidx, binfo, bfailed, bresult>>

\* compressBackup when the output file stream fails (the archive cannot be
\* opened or written): nothing listens to the stream's 'error' event (119-127),
\* the promise is neither resolved nor rejected and line 93 waits.
CompressBackupStreamError(partial) ==
  LET path == BackupPath(nBackups)
  IN /\ bpc = "compress"
     /\ disk' = IF partial
                  THEN PutEntry(disk, ArchivePath(path), [files |-> EmptyFiles, mtime |-> 0])
                  ELSE disk
     /\ bpc' = "pending"
     /\ UNCHANGED <<srcDb, nBackups, bopts, bcolls, bidx, binfo, bfailed, bresult, berr>>

\* Lines 95-110: remove the uncompressed directory, mark the manifest object
\* compressed and resolve.
RemoveUncompressed(ok) ==
  LET path == BackupPath(nBackups)
      info == binfo @@ [compressed |-> TRUE, archivePath |-> ArchivePath(path)]
  IN /\ bpc = "rmdir"
     /\ \/ /\ ok
           /\ disk' = RemoveEntry(disk, path)
           /\ binfo' = info
           /\ bpc' = "resolved"
           /\ bresult' = BackupResult(nBackups, TRUE, info)
           /\ berr' = berr
        \/ /\ ~ok
           /\ disk' = disk
           /\ bpc' = "rejected" /\ berr' = "rmdir"
           /\ UNCHANGED <<binfo, bresult>>
     /\ UNCHANGED <<srcDb, nBackups, bopts, bcolls, bidx, bfailed>>

\* The caller has the settled promise; the manager is free for the next call.
CreateBackupSettled ==
  /\ bpc \in {"resolved", "rejected"}
  /\ bpc' = "idle"
  /\ UNCHANGED <<disk, srcDb, nBackups, bopts, bcolls, bidx, binfo, bfailed, bresult, berr>>

----------------------------------------------------------------------------
(* restoreBackup, src/lib/backup-manager.js:134-222 *)

\* An extraction that keeps the files already in the scratch directory
ExtractIntoKeepsOld(old, archived) ==
  [f \in DOMAIN old \cup DOMAIN archived |->
     IF f \in DOMAIN old THEN old[f] ELSE archived[f]]

\* extract(backupPath, {dir: tempDir}): the archive's files are written into the
\* scratch directory, over the files already there under the same names
ExtractInto(old, archived) ==
  [f \in DOMAIN old \cup DOMAIN archived |->
     IF f \in DOMAIN archived THEN archived[f] ELSE old[f]]

FilesOf(d, path) == IF path \in DOMAIN d THEN d[path].files ELSE EmptyFiles

\* Lines 136-144: expand an archive into the scratch directory. A failing
\* extraction may already have created the directory.
RestoreStart(path, dropExisting, ok, created) ==
  /\ rpc = "idle"
  /\ bpc = "idle"
  /\ nRestores = 0
  /\ path \in DOMAIN disk \ {TempDir}
  /\ nRestores' = nRestores + 1
  /\ rargs' = [path |-> path, dropExisting |-> dropExisting]
  /\ rrestored' = <<>>
  /\ ridx' = 1
  /\ rfailed' = FALSE
  /\ rfailures' = {}
  /\ rtouched' = {}
  /\ \/ /\ ~EndsWithZip(path)
        /\ ok /\ created
        /\ rdir' = path
        /\ disk' = disk
        /\ rpc' = "manifest" /\ rerr' = None
     \/ /\ EndsWithZip(path)
        /\ ok /\ created
        /\ rdir' = TempDir
        /\ disk' = PutEntry(disk, TempDir,
                            [files |-> ExtractInto(FilesOf(disk, TempDir), disk[path].files),
                             mtime |-> 0])
        /\ rpc' = "manifest" /\ rerr' = None
     \/ /\ EndsWithZip(path)
        /\ ~ok
        /\ rdir' = path
        /\ disk' = IF created
                     THEN PutEntry(disk, TempDir,
                                   [files |-> FilesOf(disk, TempDir), mtime |-> 0])
                     ELSE disk
        /\ rpc' = "rejected" /\ rerr' = "extract"
  /\ UNCHANGED <<tgtDb, rinfo, rother>>

\* JSON.parse of a manifest file gives an object whose collections can be iterated
IsManifest(content) == "collections" \in DOMAIN content

\* Lines 146-153: read and parse the manifest, resolve the target database.
RestoreManifest(outcome) ==
  LET files == FilesOf(disk, rdir)
      loaded == /\ outcome # "readFail"
                /\ MetadataFile \in DOMAIN files
                /\ IsManifest(files[MetadataFile])
  IN /\ rpc = "manifest"
     /\ \/ /\ ~loaded
           /\ outcome \in {"ok", "readFail"}
           /\ rpc' = "rejected" /\ rerr' = "manifest"
           /\ rinfo' = rinfo
        \/ /\ loaded
           /\ outcome = "resolveFail"
           /\ rpc' = "rejected" /\ rerr' = "resolve"
           /\ rinfo' = files[MetadataFile]
        \/ /\ loaded
           /\ outcome = "ok"
           /\ rinfo' = files[MetadataFile]
           /\ rpc' = IF Len(files[MetadataFile].collections) = 0
                     THEN "cleanup" ELSE "collections"
           /\ rerr' = rerr
     /\ UNCHANGED <<disk, tgtDb, nRestores, rargs, rdir, ridx, rrestored, rfailed,
                    rfailures, rtouched, rother>>

\* The entry pushed to restoredCollections (lines 194-198)
RestoredRecord(name, data) ==
  [name |-> name, documents |-> data.documents, indexes |-> data.indexes - 1]

\* The loop of lines 155-204 with a catch that rethrows
RestorePcAfterRethrows(failed, last) ==
  IF failed THEN "rejected" ELSE IF last THEN "cleanup" ELSE "collections"

\* Where restoreBackup is after a turn of the loop: the catch of lines 201-203
\* logs, so a failed turn goes on like any other.
RestorePcAfter(failed, last) == IF last THEN "cleanup" ELSE "collections"

\* The calls of lines 165-192 on the target collection: a drop when asked, an
\* insertMany when there are documents, a createIndex per secondary index
Touches(dropExisting, data) ==
  dropExisting \/ data.documents > 0 \/ data.indexes > 1

\* A restore that drops the target collection whatever the option
DropAlways(db, name, dropExisting) == [db EXCEPT ![name] = 0]

\* Lines 165-171: with dropExisting the target collection is dropped, and a
\* drop that throws because there is no such collection is swallowed
DropIfAsked(db, name, dropExisting) ==
  IF dropExisting THEN [db EXCEPT ![name] = 0] ELSE db

\* Lines 155-204, one turn of the loop. A Failure record is skipped; the export
\* file is read and parsed, the collection dropped when asked, the documents
\* inserted, the indexes recreated (each failure logged and swallowed) and the
\* entry pushed. Whatever else throws in between is caught and logged: nothing
\* is pushed.
RestoreCollection(outcome, inserted) ==
  LET rec == rinfo.collections[ridx]
      files == FilesOf(disk, rdir)
      file == CollectionFile(rec.name)
      readable == /\ outcome # "readFail"
                  /\ file \in DOMAIN files
                  /\ files[file] # Garbage
      data == files[file]
      dropped == DropIfAsked(tgtDb, rec.name, rargs.dropExisting)
      last == ridx = Len(rinfo.collections)
  IN /\ rpc = "collections"
     /\ \/ /\ IsFailure(rec)
           /\ outcome = "ok" /\ inserted = 0
           /\ rpc' = RestorePcAfter(FALSE, last)
           /\ UNCHANGED <<tgtDb, rrestored, rfailed, rfailures, rtouched>>
        \/ /\ ~IsFailure(rec)
           /\ ~readable
           /\ outcome \in {"ok", "readFail"} /\ inserted = 0
           /\ rfailed' = (rfailed \/ outcome = "readFail")
           /\ rfailures' = rfailures \cup {<<ridx, "read">>}
           /\ rpc' = RestorePcAfter(TRUE, last)
           /\ UNCHANGED <<tgtDb, rrestored, rtouched>>
        \/ /\ ~IsFailure(rec)
           /\ readable
           /\ "documents" \notin DOMAIN data
           /\ outcome = "ok" /\ inserted = 0
           /\ tgtDb' = dropped
           /\ rtouched' = IF rargs.dropExisting THEN rtouched \cup {rec.name} ELSE rtouched
           /\ rfailures' = rfailures \cup {<<ridx, "read">>}
           /\ rpc' = RestorePcAfter(TRUE, last)
           /\ UNCHANGED <<rrestored, rfailed>>
        \/ /\ ~IsFailure(rec)
           /\ readable
           /\ "documents" \in DOMAIN data
           /\ outcome = "insertFail"
           /\ data.documents > 0
           /\ inserted < data.documents
           /\ tgtDb' = [dropped EXCEPT ![rec.name] = @ + inserted]
           /\ rtouched' = rtouched \cup {rec.name}
           /\ rfailed' = TRUE
           /\ rfailures' = rfailures \cup {<<ridx, "insert">>}
           /\ rpc' = RestorePcAfter(TRUE, last)
           /\ UNCHANGED rrestored
        \/ /\ ~IsFailure(rec)
           /\ readable
           /\ "documents" \in DOMAIN data
           /\ outcome = "indexFail"
           /\ data.indexes > 1
           /\ inserted = 0
           /\ tgtDb' = [dropped EXCEPT ![rec.name] = @ + data.documents]
           /\ rtouched' = rtouched \cup {rec.name}
           /\ rrestored' = Append(rrestored, RestoredRecord(rec.name, data))
           /\ rfailed' = TRUE
           /\ rfailures' = rfailures \cup {<<ridx, "index">>}
           /\ rpc' = RestorePcAfter(FALSE, last)
        \/ /\ ~IsFailure(rec)
           /\ readable
           /\ "documents" \in DOMAIN data
           /\ outcome = "ok" /\ inserted = 0
           /\ tgtDb' = [dropped EXCEPT ![rec.name] = @ + data.documents]
           /\ rtouched' = IF Touches(rargs.dropExisting, data)
                            THEN rtouched \cup {rec.name} ELSE rtouched
           /\ rrestored' = Append(rrestored, RestoredRecord(rec.name, data))
           /\ rpc' = RestorePcAfter(FALSE, last)
           /\ UNCHANGED <<rfailed, rfailures>>
     /\ ridx' = ridx + 1
     /\ UNCHANGED <<disk, nRestores, rargs, rdir, rinfo, rerr, rother>>

\* restoredCollections as lines 155-204 compute it from the files of a backup
\* directory when no call on the target database throws
RECURSIVE RestoredFromRecords(_, _)
RestoredFromRecords(records, files) ==
  IF records = <<>> THEN <<>>
  ELSE LET rec == Head(records)
           file == CollectionFile(rec.name)
           rest == RestoredFromRecords(Tail(records), files)
       IN IF \/ IsFailure(rec)
             \/ file \notin DOMAIN files
             \/ files[file] = Garbage
             \/ "documents" \notin DOMAIN files[file]
            THEN rest
            ELSE <<RestoredRecord(rec.name, files[file])>> \o rest

\* Lines 206-217: remove the scratch directory when the source was an archive,
\* then resolve.
RestoreCleanup(ok) ==
  /\ rpc = "cleanup"
  /\ \/ /\ ~EndsWithZip(rargs.path)
        /\ ok
        /\ disk' = disk
        /\ rpc' = "resolved" /\ rerr' = rerr
     \/ /\ EndsWithZip(rargs.path)
        /\ ok
        /\ disk' = RemoveEntry(disk, rdir)
        /\ rpc' = "resolved" /\ rerr' = rerr
     \/ /\ EndsWithZip(rargs.path)
        /\ ~ok
        /\ disk' = disk
        /\ rpc' = "rejected" /\ rerr' = "cleanup"
  /\ UNCHANGED <<tgtDb, nRestores, rargs, rdir, rinfo, ridx, rrestored, rfailed,
                 rfailures, rtouched, rother>>

\* No second restoreBackup call
NoOther == [pc |-> "idle", path |-> TempDir]

\* A second restoreBackup call, of another archive, lines 139-144: it expands
\* its archive into the same scratch directory.
OtherRestoreExtract(path) ==
  /\ rother.pc = "idle"
  /\ path \in DOMAIN disk
  /\ EndsWithZip(path)
  /\ rother' = [pc |-> "loop", path |-> path]
  /\ disk' = PutEntry(disk, TempDir,
                      [files |-> ExtractInto(FilesOf(disk, TempDir), disk[path].files),
                       mtime |-> 0])
  /\ UNCHANGED <<tgtDb, nRestores, rpc, rargs, rdir, rinfo, ridx, rrestored, rfailed, rerr,
                 rfailures, rtouched>>

\* The second call ends: it removes the scratch directory (lines 207-209), or
\* it rejected before and leaves it.
OtherRestoreEnd(cleaned) ==
  /\ rother.pc = "loop"
  /\ rother' = [rother EXCEPT !.pc = "done"]
  /\ disk' = IF cleaned THEN RemoveEntry(disk, TempDir) ELSE disk
  /\ UNCHANGED <<tgtDb, nRestores, rpc, rargs, rdir, rinfo, ridx, rrestored, rfailed, rerr,
                 rfailures, rtouched>>

\* The caller has the settled promise; the manager is free for the next call.
RestoreSettled ==
  /\ rpc \in {"resolved", "rejected"}
  /\ rpc' = "idle"
  /\ UNCHANGED <<disk, tgtDb, nRestores, rargs, rdir, rinfo, ridx, rrestored, rfailed, rerr,
                 rfailures, rtouched, rother>>

----------------------------------------------------------------------------
(* The scheduler, src/lib/backup-manager.js:271-360, and the configuration
   store, src/lib/config-manager.js:72-90, 152-158 *)

\* (cluster, database) pairs, the names as sequences of characters
Pairs == {<<<<"a">>, <<"c">>>>, <<<<"a", "-", "b">>, <<"c">>>>, <<<<"a">>, <<"b", "-", "c">>>>}

\* Trigger patterns node-cron accepts
ValidPatterns == {"0 2 * * *", "0 3 * * *"}

\* The (pattern, options) a caller schedules with; node-cron rejects the last pattern
Requests == {<<"0 2 * * *", "compress">>, <<"0 3 * * *", "plain">>, <<"invalid-cron", "plain">>}

\* `${clusterName}-${dbName}` (line 273)
JobId(clusterName, dbName) == clusterName \o <<"-">> \o dbName

EmptyMap == [k \in {} |-> None]

Put(map, key, value) ==
  [k \in DOMAIN map \cup {key} |-> IF k = key THEN value ELSE map[k]]

Delete(map, key) == [k \in DOMAIN map \ {key} |-> map[k]]

\* The schedule definition saved to the configuration (lines 304-309)
ScheduleDefinition(c, d, p, o) ==
  [cluster |-> c, database |-> d, pattern |-> p, options |-> o]

\* A persisted entry that is no schedule definition (null)
Malformed == [malformed |-> TRUE]

IsDefinition(e) == "cluster" \in DOMAIN e

NoArgs == ScheduleDefinition(<<>>, <<>>, "", "")

\* saveScheduleToConfig with a table that starts from {} on every call
SaveScheduleForgetsOthers(cfg, jobId, schedule) ==
  [defined |-> TRUE, table |-> Put(EmptyMap, jobId, schedule)]

\* saveScheduleToConfig up to the save (lines 349-351):
\* getSetting('backupSchedules') || {}, schedules[jobId] = schedule, setSetting
SaveScheduleToConfig(cfg, jobId, schedule) ==
  [defined |-> TRUE, table |-> Put(cfg.table, jobId, schedule)]

\* removeScheduleFromConfig that leaves the table as it is
RemoveScheduleKeepsEntry(cfg, jobId) == [defined |-> TRUE, table |-> cfg.table]

\* removeScheduleFromConfig up to the save (lines 356-358)
RemoveScheduleFromConfig(cfg, jobId) ==
  [defined |-> TRUE, table |-> Delete(cfg.table, jobId)]

\* A call that is not in flight. Of a call in flight: its kind and position,
\* its job id and arguments, the task it created or stopped, the task of the
\* entry a scheduleBackup found under its id, the configuration copy being
\* saved, how it settled, and for initialize the entries read, those still to
\* replay and the failures logged.
IdleOp ==
  [kind |-> "idle", pc |-> "idle", id |-> <<>>, args |-> NoArgs, task |-> 0,
   replaced |-> 0,
   snapshot |-> [defined |-> FALSE, table |-> EmptyMap],
   result |-> None, err |-> None,
   pending |-> {}, entries |-> EmptyMap, logged |-> 0]

\* What the synchronous part of scheduleBackup throws (lines 276-290), if
\* anything: the entry of an existing job has no stop method (its task is the
\* entry's job field), and cron.schedule rejects an invalid pattern.
ScheduleThrows(jobId, cronPattern) ==
  IF jobId \in DOMAIN scheduledJobs THEN "TypeError"
  ELSE IF cronPattern \notin ValidPatterns THEN "pattern"
  ELSE None

\* Lines 280-309 when nothing throws: create the task, enter it in
\* scheduledJobs, start it, put the definition in the settings.
InstallSchedule(def) ==
  LET jobId == JobId(def.cluster, def.database)
      task == Len(tasks) + 1
  IN /\ tasks' = Append(tasks, "running")
     /\ closures' = Append(closures, [id |-> jobId, cluster |-> def.cluster,
                                      database |-> def.database, options |-> def.options])
     /\ scheduledJobs' = Put(scheduledJobs, jobId,
                             [job |-> task, cluster |-> def.cluster,
                              database |-> def.database, pattern |-> def.pattern,
                              options |-> def.options])
     /\ settings' = SaveScheduleToConfig(settings, jobId, def)

\* scheduleBackup, lines 271-309 up to the await inside ConfigManager.save,
\* which has copied the configuration it is about to write (line 75).
ScheduleBackupCall(s, c, d, p, o) ==
  LET jobId == JobId(c, d)
      def == ScheduleDefinition(c, d, p, o)
      thrown == ScheduleThrows(jobId, p)
      call == [IdleOp EXCEPT !.kind = "schedule", !.id = jobId, !.args = def,
                             !.replaced = IF jobId \in DOMAIN scheduledJobs
                                          THEN scheduledJobs[jobId].job ELSE 0]
  IN /\ ops[s].pc = "idle"
     /\ \/ /\ thrown # None
           /\ ops' = [ops EXCEPT ![s] = [call EXCEPT !.pc = "rejected", !.err = thrown]]
           /\ UNCHANGED <<scheduledJobs, tasks, settings, closures>>
        \/ /\ thrown = None
           /\ Len(tasks) < MaxTasks
           /\ InstallSchedule(def)
           /\ ops' = [ops EXCEPT ![s] =
                        [call EXCEPT !.pc = "saving", !.task = Len(tasks) + 1,
                                     !.snapshot = settings']]
     /\ UNCHANGED <<cfgFile, initCalled, kept>>

\* A stop that leaves the task running
StopTaskForgotten(ts, task) == ts

\* scheduledJob.job.stop() (line 322)
StopTask(ts, task) == [ts EXCEPT ![task] = "stopped"]

\* unscheduleBackup, lines 320-328 up to the await inside ConfigManager.save
UnscheduleBackupCall(s, jobId) ==
  LET call == [IdleOp EXCEPT !.kind = "unschedule", !.id = jobId]
  IN /\ ops[s].pc = "idle"
     /\ \/ /\ jobId \in DOMAIN scheduledJobs
           /\ tasks' = StopTask(tasks, scheduledJobs[jobId].job)
           /\ scheduledJobs' = Delete(scheduledJobs, jobId)
           /\ settings' = RemoveScheduleFromConfig(settings, jobId)
           /\ ops' = [ops EXCEPT ![s] =
                        [call EXCEPT !.pc = "saving", !.task = scheduledJobs[jobId].job,
                                     !.snapshot = settings']]
           /\ kept' = Delete(kept, jobId)
        \/ /\ jobId \notin DOMAIN scheduledJobs
           /\ ops' = [ops EXCEPT ![s] = [call EXCEPT !.pc = "resolved", !.result = "false"]]
           /\ UNCHANGED <<scheduledJobs, tasks, settings, kept>>
     /\ UNCHANGED <<cfgFile, initCalled, closures>>

\* ConfigManager.save (lines 84-89) as awaited by scheduleBackup (304, 311-313)
\* and unscheduleBackup (324-326): the copy is written to the file, or the
\* write fails and the call rejects.
SaveCompletes(s, ok) ==
  /\ ops[s].pc = "saving"
  /\ \/ /\ ok
        /\ cfgFile' = ops[s].snapshot
        /\ ops' = [ops EXCEPT ![s].pc = "resolved",
                              ![s].result = IF ops[s].kind = "schedule" THEN "id" ELSE "true"]
        /\ kept' = IF ops[s].kind = "schedule" THEN Put(kept, ops[s].id, ops[s].args) ELSE kept
     \/ /\ ~ok
        /\ cfgFile' = cfgFile
        /\ ops' = [ops EXCEPT ![s].pc = "rejected", ![s].err = "save"]
        /\ kept' = kept
  /\ UNCHANGED <<scheduledJobs, tasks, settings, initCalled, closures>>

\* The caller has the settled promise
OpSettled(s) ==
  /\ ops[s].pc \in {"resolved", "rejected"}
  /\ ops' = [ops EXCEPT ![s] = IdleOp]
  /\ UNCHANGED <<scheduledJobs, tasks, settings, cfgFile, initCalled, closures, kept>>

\* loadScheduledBackups whose catch rethrows: the first failing entry ends the replay
ReplayNextRethrows(op, key, failed) ==
  IF failed THEN [op EXCEPT !.pc = "rejected", !.err = "replay"]
  ELSE [op EXCEPT !.pending = @ \ {key},
                  !.pc = IF op.pending \ {key} = {} THEN "resolved" ELSE "replay"]

\* loadScheduledBackups, lines 334-345: after an entry, failed (logged by the
\* catch) or not, the loop goes on; initialize resolves after the last one.
ReplayNext(op, key, failed) ==
  [op EXCEPT !.pending = @ \ {key},
             !.logged = IF failed THEN @ + 1 ELSE @,
             !.pc = IF op.pending \ {key} = {} THEN "resolved" ELSE "replay"]

\* initialize, lines 15-18, and loadScheduledBackups, lines 332-334: create
\* the backup root, read the persisted table and take its entries.
InitializeCall(s, ok) ==
  LET call == [IdleOp EXCEPT !.kind = "initialize"]
      schedules == IF settings.defined THEN settings.table ELSE EmptyMap
  IN /\ ops[s].pc = "idle"
     /\ ~initCalled
     /\ initCalled' = TRUE
     /\ \/ /\ ~ok
           /\ ops' = [ops EXCEPT ![s] = [call EXCEPT !.pc = "rejected", !.err = "mkdir"]]
        \/ /\ ok
           /\ ops' = [ops EXCEPT ![s] =
                        [call EXCEPT !.entries = schedules,
                                     !.pending = DOMAIN schedules,
                                     !.pc = IF DOMAIN schedules = {}
                                            THEN "resolved" ELSE "replay"]]
     /\ UNCHANGED <<scheduledJobs, tasks, settings, cfgFile, closures, kept>>

\* loadScheduledBackups, lines 334-344, one entry: scheduleBackup is called
\* with the entry's fields and runs up to its save; a throw is caught and logged.
InitializeReplay(s, key) ==
  LET op == ops[s]
      entry == op.entries[key]
      thrown == IF ~IsDefinition(entry) THEN "TypeError"
                ELSE ScheduleThrows(JobId(entry.cluster, entry.database), entry.pattern)
  IN /\ op.pc = "replay"
     /\ key \in op.pending
     /\ \/ /\ thrown # None
           /\ ops' = [ops EXCEPT ![s] = ReplayNext(op, key, TRUE)]
           /\ UNCHANGED <<scheduledJobs, tasks, settings, closures>>
        \/ /\ thrown = None
           /\ Len(tasks) < MaxTasks
           /\ InstallSchedule(entry)
           /\ ops' = [ops EXCEPT ![s] =
                        [op EXCEPT !.pc = "replaySaving", !.id = key,
                                   !.snapshot = settings']]
     /\ UNCHANGED <<cfgFile, initCalled, kept>>

\* The save awaited by the replayed scheduleBackup: written, or failed, which
\* rejects that scheduleBackup and is logged by loadScheduledBackups.
InitializeReplaySaved(s, ok) ==
  LET op == ops[s]
  IN /\ op.pc = "replaySaving"
     /\ cfgFile' = IF ok THEN op.snapshot ELSE cfgFile
     /\ ops' = [ops EXCEPT ![s] = ReplayNext(op, op.id, ~ok)]
     /\ kept' = IF ok THEN Put(kept, op.id, op.entries[op.id]) ELSE kept
     /\ UNCHANGED <<scheduledJobs, tasks, settings, initCalled, closures>>

----------------------------------------------------------------------------
(* Cron firings, src/lib/backup-manager.js:280-290, and the start of a new
   process, src/lib/index.js:8-28, src/lib/config-manager.js:44-70 *)

\* What a callback has captured before any schedule exists
NoClosure == [id |-> <<>>, cluster |-> <<>>, database |-> <<>>, options |-> ""]

\* No cron callback running
NoFiring == [pc |-> "idle", task |-> 0, args |-> NoClosure, logged |-> None]

\* A callback that logs nothing when createBackup rejects
FiringLogSilentOnFailure(ok) == IF ok THEN "completed" ELSE None

\* What the callback logs after createBackup: line 284 when it resolved, the
\* catch of lines 285-287 when it rejected
FiringLog(ok) == IF ok THEN "completed" ELSE "failed"

\* The backup a firing's createBackup leaves in the backup root: the archive or
\* the directory with its manifest when it resolved, the directory made at
\* line 31 without a manifest when a later step rejected.
FiredBackup(d, n, options, ok) ==
  IF ~ok THEN PutEntry(d, BackupPath(n), [files |-> EmptyFiles, mtime |-> 0])
  ELSE IF options = "compress"
    THEN PutEntry(d, ArchivePath(BackupPath(n)),
                  [files |-> WriteFile(EmptyFiles, MetadataFile, NewBackupInfo), mtime |-> 0])
  ELSE PutEntry(d, BackupPath(n),
                [files |-> WriteFile(EmptyFiles, MetadataFile, NewBackupInfo), mtime |-> 0])

\* node-cron runs the callback of a started task (lines 280-283): it logs the
\* start and calls createBackup with the names and options it captured.
FireStart(task) ==
  /\ task \in DOMAIN tasks
  /\ tasks[task] = "running"
  /\ firing.pc = "idle"
  /\ nFires < MaxFires
  /\ nFires' = nFires + 1
  /\ firing' = [pc |-> "backup", task |-> task, args |-> closures[task], logged |-> "starting"]
  /\ UNCHANGED <<disk, scheduledJobs, tasks, settings, cfgFile, initCalled, ops, closures,
                 kept, mgr, restarted>>

\* The createBackup of the callback settles (lines 283-287): the outcome is
\* logged and the callback returns.
FireEnd(ok) ==
  /\ firing.pc = "backup"
  /\ disk' = FiredBackup(disk, nFires, firing.args.options, ok)
  /\ firing' = [firing EXCEPT !.pc = "done", !.logged = FiringLog(ok)]
  /\ UNCHANGED <<scheduledJobs, tasks, settings, cfgFile, initCalled, ops, closures, kept,
                 nFires, mgr, restarted>>

\* The callback has returned
FireSettled ==
  /\ firing.pc = "done"
  /\ firing' = NoFiring
  /\ UNCHANGED <<disk, scheduledJobs, tasks, settings, cfgFile, initCalled, ops, closures,
                 kept, nFires, mgr, restarted>>

\* The process exits and a new MongoDBManager is constructed over the same
\* configuration file (index.js:9-16): the cron tasks of the old process are
\* gone, the new BackupManager has an empty scheduledJobs (backup-manager.js:11)
\* and the new ConfigManager its default settings (config-manager.js:8-16).
ProcessRestart ==
  /\ ~restarted
  /\ \A s \in DOMAIN ops : ops[s].pc = "idle"
  /\ firing.pc = "idle"
  /\ restarted' = TRUE
  /\ scheduledJobs' = EmptyMap
  /\ tasks' = [t \in DOMAIN tasks |-> "stopped"]
  /\ settings' = [defined |-> FALSE, table |-> EmptyMap]
  /\ initCalled' = FALSE
  /\ mgr' = "none"
  /\ UNCHANGED <<disk, cfgFile, ops, closures, kept, firing, nFires>>

\* MongoDBManager.initialize (index.js:18-28): load the configuration file
\* (config-manager.js:44-62), connect the clusters, return true; a file that
\* cannot be read or parsed rejects it.
ManagerInitialize(ok) ==
  /\ restarted
  /\ mgr = "none"
  /\ \A s \in DOMAIN ops : ops[s].pc = "idle"
  /\ \/ /\ ok
        /\ settings' = cfgFile
        /\ mgr' = "resolved"
     \/ /\ ~ok
        /\ settings' = settings
        /\ mgr' = "rejected"
  /\ UNCHANGED <<disk, scheduledJobs, tasks, cfgFile, initCalled, ops, closures, kept,
                 firing, nFires, restarted>>

----------------------------------------------------------------------------
(* listBackups and cleanupOldBackups, src/lib/backup-manager.js:224-269, 374-403.
   A time is a number of days from the moment of the sweep: a backup made 40
   days ago has the timestamp -40. *)

\* The descriptor listBackups pushes for a directory with a manifest (238-248)
\* or for an archive (254-260). An archive's creation time is its mtime; a
\* directory's is its manifest's timestamp, undefined (not dated) when the
\* manifest has none.
Descriptor(d, path) ==
  [name |-> [path EXCEPT !.zip = FALSE],
   path |-> path,
   dated |-> EndsWithZip(path) \/ "timestamp" \in DOMAIN d[path].files[MetadataFile],
   created |-> IF EndsWithZip(path) THEN d[path].mtime
               ELSE IF "timestamp" \in DOMAIN d[path].files[MetadataFile]
                 THEN d[path].files[MetadataFile].timestamp
               ELSE 0,
   compressed |-> EndsWithZip(path)]

\* A listing that describes the archives alone
ListedArchivesOnly(d) == {path \in DOMAIN d : EndsWithZip(path)}

\* The entries listBackups describes: archives, and directories whose
\* manifest is there and parses (lines 233-261)
Listed(d) ==
  {path \in DOMAIN d :
     \/ EndsWithZip(path)
     \/ /\ MetadataFile \in DOMAIN d[path].files
        /\ IsManifest(d[path].files[MetadataFile])}

\* fs.readdir (line 226): the entries of the backup root in the order of
\* their names
RECURSIVE ReadDir(_)
ReadDir(paths) ==
  IF paths = {} THEN <<>>
  ELSE LET first == CHOOSE p \in paths :
                      \A q \in paths : p.n < q.n \/ (p.n = q.n /\ (q.zip \/ ~p.zip))
       IN <<first>> \o ReadDir(paths \ {first})

\* (a, b) => new Date(b.created) - new Date(a.created), line 264: positive when
\* b is the more recent; with an undefined creation time the difference is
\* NaN, which the sort takes for 0
CompareCreated(a, b) == IF a.dated /\ b.dated THEN b.created - a.created ELSE 0

\* One insertion of the stable sort: x goes behind the last element it does
\* not have to precede
RECURSIVE InsertByCreated(_, _)
InsertByCreated(sorted, x) ==
  IF sorted = <<>> THEN <<x>>
  ELSE IF CompareCreated(sorted[Len(sorted)], x) > 0
    THEN Append(InsertByCreated(SubSeq(sorted, 1, Len(sorted) - 1), x), sorted[Len(sorted)])
    ELSE Append(sorted, x)

\* backups.sort(...), line 264: a stable sort with CompareCreated
RECURSIVE SortNewestFirst(_)
SortNewestFirst(backups) ==
  IF backups = <<>> THEN <<>>
  ELSE InsertByCreated(SortNewestFirst(SubSeq(backups, 1, Len(backups) - 1)),
                       backups[Len(backups)])

\* listBackups, lines 224-264
ListBackups(d) ==
  LET files == ReadDir(Listed(d))
  IN SortNewestFirst([i \in DOMAIN files |-> Descriptor(d, files[i])])

\* The fallback retention of line 375
DefaultRetention == 30

\* A retention value that is given and not 0 is truthy
Truthy(days) == days.given /\ days.days # 0

\* retentionDays || this.config.getSetting('backupRetention') || 30 (line 375)
Retention(retentionDays, configured) ==
  IF Truthy(retentionDays) THEN retentionDays.days
  ELSE IF Truthy(configured) THEN configured.days
  ELSE DefaultRetention

\* new Date(backup.created) < cutoffDate (lines 376-383), the cutoff being
\* retention days before now
IsOld(desc, retention) == desc.dated /\ desc.created < 0 - retention

\* Lines 375-383: compute the cutoff, list the backups, keep the old ones.
CleanupStart(retentionDays, ok) ==
  LET retention == Retention(retentionDays, cfgRetention)
      backups == ListBackups(disk)
      oldBackups == SelectSeq(backups, LAMBDA b : IsOld(b, retention))
  IN /\ cpc = "idle"
     /\ cresult = 0 - 1
     /\ cargs' = retentionDays
     /\ cidx' = 1
     /\ cdeleted' = {}
     /\ \/ /\ ok
           /\ clisted' = backups
           /\ ccands' = oldBackups
           /\ cpc' = IF Len(oldBackups) = 0 THEN "resolved" ELSE "deleting"
           /\ cresult' = IF Len(oldBackups) = 0 THEN 0 ELSE cresult
        \/ /\ ~ok
           /\ clisted' = <<>>
           /\ ccands' = <<>>
           /\ cpc' = "rejected"
           /\ cresult' = cresult
     /\ UNCHANGED <<disk, cfgRetention>>

\* Lines 385-398, one turn of the loop: unlink the archive or remove the
\* directory; a failure is caught and logged. After the last candidate the
\* call resolves with oldBackups.length.
CleanupDelete(ok) ==
  LET backup == ccands[cidx]
  IN /\ cpc = "deleting"
     /\ \/ /\ ok
           /\ disk' = RemoveEntry(disk, backup.path)
           /\ cdeleted' = cdeleted \cup {backup.path}
        \/ /\ ~ok
           /\ disk' = disk
           /\ cdeleted' = cdeleted
     /\ cidx' = cidx + 1
     /\ cpc' = IF cidx = Len(ccands) THEN "resolved" ELSE "deleting"
     /\ cresult' = IF cidx = Len(ccands) THEN Len(ccands) ELSE cresult
     /\ UNCHANGED <<cfgRetention, cargs, clisted, ccands>>

\* The caller has the settled promise
CleanupSettled ==
  /\ cpc \in {"resolved", "rejected"}
  /\ cpc' = "idle"
  /\ UNCHANGED <<disk, cfgRetention, cargs, clisted, ccands, cidx, cdeleted, cresult>>

----------------------------------------------------------------------------
(* Specification of createBackup and restoreBackup *)

\* What a source collection holds: nothing but the automatic _id_ index, or
\* documents and a secondary index
SourceContents == {[docs |-> 0, indexes |-> 1], [docs |-> 2, indexes |-> 2]}

\* Sequences of distinct collections, at most MaxColls long
SourceDatabases ==
  {s \in UNION {[1..k -> {[name |-> n, docs |-> c.docs, indexes |-> c.indexes] :
                             n \in CollNames, c \in SourceContents}]
                  : k \in 0..MaxColls} :
     \A i, j \in DOMAIN s : i # j => s[i].name # s[j].name}

\* Archives found in the backup root that no createBackup wrote: the manifest
\* of one is missing, that of the other does not parse
EmptyArchive == [base |-> "empty", n |-> 0, zip |-> TRUE]
BrokenArchive == [base |-> "broken", n |-> 0, zip |-> TRUE]

InitialDisk ==
  PutEntry(PutEntry(EmptyFiles, EmptyArchive, [files |-> EmptyFiles, mtime |-> 0]),
           BrokenArchive,
           [files |-> WriteFile(EmptyFiles, MetadataFile, Garbage), mtime |-> 0])

\* The scratch directory an earlier restore left behind: the export of a
\* collection and the manifest that lists it
StaleExport == CollectionData([name |-> "users", docs |-> 1, indexes |-> 1])

StaleScratch ==
  [files |-> WriteFile(WriteFile(EmptyFiles, CollectionFile("users"), StaleExport),
                       MetadataFile, PushSuccess(NewBackupInfo, StaleExport)),
   mtime |-> 0]

InitialDisks == {InitialDisk, PutEntry(InitialDisk, TempDir, StaleScratch)}

BackupIdle ==
  /\ nBackups = 0
  /\ bpc = "idle"
  /\ bopts = FALSE
  /\ bcolls = <<>>
  /\ bidx = 1
  /\ binfo = NewBackupInfo
  /\ bfailed = {}
  /\ bresult = BackupResult(0, FALSE, NewBackupInfo)
  /\ berr = None

RestoreIdle ==
  /\ tgtDb = [c \in CollNames |-> 0]
  /\ nRestores = 0
  /\ rpc = "idle"
  /\ rargs = [path |-> TempDir, dropExisting |-> FALSE]
  /\ rdir = TempDir
  /\ rinfo = NewBackupInfo
  /\ ridx = 1
  /\ rrestored = <<>>
  /\ rfailed = FALSE
  /\ rerr = None
  /\ rfailures = {}
  /\ rtouched = {}
  /\ rother = NoOther

NotGiven == [given |-> FALSE, days |-> 0]

Given(days) == [given |-> TRUE, days |-> days]

CleanupIdle ==
  /\ cfgRetention = Given(DefaultRetention)
  /\ cpc = "idle"
  /\ cargs = NotGiven
  /\ clisted = <<>>
  /\ ccands = <<>>
  /\ cidx = 1
  /\ cdeleted = {}
  /\ cresult = 0 - 1

\* No firing, nothing scheduled in this run, MongoDBManager.initialize() not called
LifeIdle ==
  /\ closures = <<>>
  /\ kept = EmptyMap
  /\ firing = NoFiring
  /\ nFires = 0
  /\ mgr = "none"
  /\ restarted = FALSE

SchedIdle ==
  /\ scheduledJobs = EmptyMap
  /\ tasks = <<>>
  /\ settings = [defined |-> FALSE, table |-> EmptyMap]
  /\ cfgFile = [defined |-> FALSE, table |-> EmptyMap]
  /\ initCalled = FALSE
  /\ ops = [s \in {1} |-> IdleOp]
  /\ LifeIdle

InitBackup ==
  /\ disk \in InitialDisks
  /\ srcDb \in SourceDatabases
  /\ BackupIdle
  /\ RestoreIdle
  /\ SchedIdle
  /\ CleanupIdle

NextBackup ==
  \/ \E compress \in BOOLEAN, outcome \in {"ok", "mkdirFail", "resolveFail", "listFail"} :
       CreateBackupStart(compress, outcome) /\ UNCHANGED <<restoreVars, schedVars, cleanupVars>>
  \/ \E outcome \in {"ok", "statsFail", "findFail", "indexFail", "writeFail"} :
       BackupCollection(outcome) /\ UNCHANGED <<restoreVars, schedVars, cleanupVars>>
  \/ \E ok \in BOOLEAN : WriteManifest(ok) /\ UNCHANGED <<restoreVars, schedVars, cleanupVars>>
  \/ \E ok, partial \in BOOLEAN : CompressBackup(ok, partial) /\ UNCHANGED <<restoreVars, schedVars, cleanupVars>>
  \/ \E ok \in BOOLEAN : RemoveUncompressed(ok) /\ UNCHANGED <<restoreVars, schedVars, cleanupVars>>
  \/ CreateBackupSettled /\ UNCHANGED <<restoreVars, schedVars, cleanupVars>>
  \/ \E path \in DOMAIN disk, dropExisting, ok, created \in BOOLEAN :
       RestoreStart(path, dropExisting, ok, created) /\ UNCHANGED <<backupVars, schedVars, cleanupVars>>
  \/ \E outcome \in {"ok", "readFail", "resolveFail"} :
       RestoreManifest(outcome) /\ UNCHANGED <<backupVars, schedVars, cleanupVars>>
  \/ \E outcome \in {"ok", "readFail", "insertFail", "indexFail"}, inserted \in {0, 1} :
       RestoreCollection(outcome, inserted) /\ UNCHANGED <<backupVars, schedVars, cleanupVars>>
  \/ \E ok \in BOOLEAN : RestoreCleanup(ok) /\ UNCHANGED <<backupVars, schedVars, cleanupVars>>
  \/ RestoreSettled /\ UNCHANGED <<backupVars, schedVars, cleanupVars>>

SpecBackup == InitBackup /\ [][NextBackup]_vars

----------------------------------------------------------------------------
(* Specification of one createBackup call over a source database that other
   clients change meanwhile (SpecCreate). Every step of createBackup that can
   be taken is taken in the end: the event loop runs each continuation whose
   awaited call has settled. *)

InitCreate ==
  /\ disk = InitialDisk
  /\ srcDb \in SourceDatabases
  /\ BackupIdle
  /\ RestoreIdle
  /\ SchedIdle
  /\ CleanupIdle

\* The steps of the createBackup call
CreateBackupSteps ==
  \/ \E compress \in BOOLEAN, outcome \in {"ok", "mkdirFail", "resolveFail", "listFail"} :
       CreateBackupStart(compress, outcome) /\ UNCHANGED <<restoreVars, schedVars, cleanupVars>>
  \/ \E outcome \in {"ok", "statsFail", "findFail", "indexFail", "writeFail"} :
       BackupCollection(outcome) /\ UNCHANGED <<restoreVars, schedVars, cleanupVars>>
  \/ \E ok \in BOOLEAN : WriteManifest(ok) /\ UNCHANGED <<restoreVars, schedVars, cleanupVars>>
  \/ \E ok, partial \in BOOLEAN : CompressBackup(ok, partial) /\ UNCHANGED <<restoreVars, schedVars, cleanupVars>>
  \/ \E partial \in BOOLEAN : CompressBackupStreamError(partial) /\ UNCHANGED <<restoreVars, schedVars, cleanupVars>>
  \/ \E ok \in BOOLEAN : RemoveUncompressed(ok) /\ UNCHANGED <<restoreVars, schedVars, cleanupVars>>
  \/ CreateBackupSettled /\ UNCHANGED <<restoreVars, schedVars, cleanupVars>>

NextCreate ==
  \/ CreateBackupSteps
  \/ \E name \in CollNames : SourceCreateCollection(name) /\ UNCHANGED <<restoreVars, schedVars, cleanupVars>>
  \/ \E name \in CollNames : SourceDropCollection(name) /\ UNCHANGED <<restoreVars, schedVars, cleanupVars>>

SpecCreate == InitCreate /\ [][NextCreate]_vars /\ WF_vars(CreateBackupSteps)

----------------------------------------------------------------------------
(* Specification of the scheduler: one caller, which awaits each call *)

\* The schedule table found in the configuration file at startup: written by
\* earlier runs (key = job id), with possibly one entry that cannot be
\* installed, its pattern invalid or the entry itself no definition
PersistedChoices ==
  [k \in {JobId(<<"a">>, <<"c">>), JobId(<<"a", "-", "b">>, <<"c">>)} |->
     IF k = JobId(<<"a">>, <<"c">>)
       THEN {ScheduleDefinition(<<"a">>, <<"c">>, "0 2 * * *", "compress"),
             ScheduleDefinition(<<"a">>, <<"c">>, "invalid-cron", "plain"),
             Malformed}
       ELSE {ScheduleDefinition(<<"a", "-", "b">>, <<"c">>, "0 3 * * *", "plain")}]

PersistedTables ==
  UNION {{t \in [keys -> UNION {PersistedChoices[k] : k \in keys}] :
            \A k \in keys : t[k] \in PersistedChoices[k]} :
         keys \in SUBSET DOMAIN PersistedChoices}

JobIds == {JobId(pair[1], pair[2]) : pair \in Pairs}

InitSched ==
  /\ disk = InitialDisk
  /\ srcDb = <<>>
  /\ BackupIdle
  /\ RestoreIdle
  /\ CleanupIdle
  /\ scheduledJobs = EmptyMap
  /\ tasks = <<>>
  /\ \E t \in PersistedTables :
        /\ settings = [defined |-> t # EmptyMap, table |-> t]
        /\ cfgFile = settings
  /\ initCalled = FALSE
  /\ ops = [s \in {1} |-> IdleOp]
  /\ LifeIdle

NextSched ==
  \/ \E s \in DOMAIN ops, pair \in Pairs, req \in Requests :
       ScheduleBackupCall(s, pair[1], pair[2], req[1], req[2]) /\ UNCHANGED <<disk, backupVars, restoreVars, cleanupVars, lifeVars>>
  \/ \E s \in DOMAIN ops, jobId \in JobIds :
       UnscheduleBackupCall(s, jobId) /\ UNCHANGED <<disk, backupVars, restoreVars, cleanupVars, lifeVars>>
  \/ \E s \in DOMAIN ops, ok \in BOOLEAN :
       SaveCompletes(s, ok) /\ UNCHANGED <<disk, backupVars, restoreVars, cleanupVars, lifeVars>>
  \/ \E s \in DOMAIN ops : OpSettled(s) /\ UNCHANGED <<disk, backupVars, restoreVars, cleanupVars, lifeVars>>
  \/ \E s \in DOMAIN ops, ok \in BOOLEAN :
       InitializeCall(s, ok) /\ UNCHANGED <<disk, backupVars, restoreVars, cleanupVars, lifeVars>>
  \/ \E s \in DOMAIN ops, key \in JobIds :
       InitializeReplay(s, key) /\ UNCHANGED <<disk, backupVars, restoreVars, cleanupVars, lifeVars>>
  \/ \E s \in DOMAIN ops, ok \in BOOLEAN :
       InitializeReplaySaved(s, ok) /\ UNCHANGED <<disk, backupVars, restoreVars, cleanupVars, lifeVars>>

SpecSched == InitSched /\ [][NextSched]_vars

----------------------------------------------------------------------------
(* Specifications of the scheduler with the firings of the cron tasks
   (SpecFire) and over a restart of the process (SpecLife) *)

\* The scheduleBackup calls a caller makes: (cluster, database, pattern, options)
LifeCalls ==
  {<<<<"a">>, <<"c">>, "0 2 * * *", "compress">>,
   <<<<"a", "-", "b">>, <<"c">>, "0 3 * * *", "plain">>,
   <<<<"a">>, <<"c">>, "invalid-cron", "plain">>}

\* The persisted table a process starts over: none, or one schedule
FirePersisted ==
  {EmptyMap,
   Put(EmptyMap, JobId(<<"a">>, <<"c">>),
       ScheduleDefinition(<<"a">>, <<"c">>, "0 2 * * *", "compress"))}

InitFire ==
  /\ disk = InitialDisk
  /\ srcDb = <<>>
  /\ BackupIdle
  /\ RestoreIdle
  /\ CleanupIdle
  /\ scheduledJobs = EmptyMap
  /\ tasks = <<>>
  /\ \E t \in FirePersisted :
        /\ settings = [defined |-> t # EmptyMap, table |-> t]
        /\ cfgFile = settings
  /\ initCalled = FALSE
  /\ ops = [s \in {1} |-> IdleOp]
  /\ LifeIdle

\* The schedule operations of a running process
NextOps ==
  \/ \E s \in DOMAIN ops, call \in LifeCalls :
       ScheduleBackupCall(s, call[1], call[2], call[3], call[4]) /\ UNCHANGED <<disk, backupVars, restoreVars, cleanupVars, lifeVars>>
  \/ \E s \in DOMAIN ops, call \in LifeCalls :
       UnscheduleBackupCall(s, JobId(call[1], call[2])) /\ UNCHANGED <<disk, backupVars, restoreVars, cleanupVars, lifeVars>>
  \/ \E s \in DOMAIN ops, ok \in BOOLEAN :
       SaveCompletes(s, ok) /\ UNCHANGED <<disk, backupVars, restoreVars, cleanupVars, lifeVars>>
  \/ \E s \in DOMAIN ops : OpSettled(s) /\ UNCHANGED <<disk, backupVars, restoreVars, cleanupVars, lifeVars>>
  \/ \E s \in DOMAIN ops, key \in JobIds :
       InitializeReplay(s, key) /\ UNCHANGED <<disk, backupVars, restoreVars, cleanupVars, lifeVars>>
  \/ \E s \in DOMAIN ops, ok \in BOOLEAN :
       InitializeReplaySaved(s, ok) /\ UNCHANGED <<disk, backupVars, restoreVars, cleanupVars, lifeVars>>

NextFire ==
  \/ NextOps
  \/ \E s \in DOMAIN ops, ok \in BOOLEAN :
       InitializeCall(s, ok) /\ UNCHANGED <<disk, backupVars, restoreVars, cleanupVars, lifeVars>>
  \/ \E task \in 1..MaxTasks : FireStart(task) /\ UNCHANGED <<backupVars, restoreVars, cleanupVars>>
  \/ \E ok \in BOOLEAN : FireEnd(ok) /\ UNCHANGED <<backupVars, restoreVars, cleanupVars>>
  \/ FireSettled /\ UNCHANGED <<backupVars, restoreVars, cleanupVars>>

SpecFire == InitFire /\ [][NextFire]_vars

InitLife ==
  /\ disk = InitialDisk
  /\ srcDb = <<>>
  /\ BackupIdle
  /\ RestoreIdle
  /\ CleanupIdle
  /\ SchedIdle

\* The application calls BackupManager.initialize() of the new process, if it
\* does, after MongoDBManager.initialize() has resolved
NextLife ==
  \/ NextOps
  \/ \E s \in DOMAIN ops, ok \in BOOLEAN :
       /\ mgr = "resolved"
       /\ InitializeCall(s, ok) /\ UNCHANGED <<disk, backupVars, restoreVars, cleanupVars, lifeVars>>
  \/ ProcessRestart /\ UNCHANGED <<backupVars, restoreVars, cleanupVars>>
  \/ \E ok \in BOOLEAN : ManagerInitialize(ok) /\ UNCHANGED <<backupVars, restoreVars, cleanupVars>>

SpecLife == InitLife /\ [][NextLife]_vars

----------------------------------------------------------------------------
(* Specification of the scheduler with two callers whose calls overlap
   (SpecOverlap): a call is started while the save of the other is awaited *)

InitOverlap ==
  /\ disk = InitialDisk
  /\ srcDb = <<>>
  /\ BackupIdle
  /\ RestoreIdle
  /\ CleanupIdle
  /\ scheduledJobs = EmptyMap
  /\ tasks = <<>>
  /\ settings = [defined |-> FALSE, table |-> EmptyMap]
  /\ cfgFile = [defined |-> FALSE, table |-> EmptyMap]
  /\ initCalled = FALSE
  /\ ops = [s \in {1, 2} |-> IdleOp]
  /\ LifeIdle

NextOverlap ==
  \/ \E s \in DOMAIN ops, call \in LifeCalls :
       ScheduleBackupCall(s, call[1], call[2], call[3], call[4]) /\ UNCHANGED <<disk, backupVars, restoreVars, cleanupVars, lifeVars>>
  \/ \E s \in DOMAIN ops, call \in LifeCalls :
       UnscheduleBackupCall(s, JobId(call[1], call[2])) /\ UNCHANGED <<disk, backupVars, restoreVars, cleanupVars, lifeVars>>
  \/ \E s \in DOMAIN ops, ok \in BOOLEAN :
       SaveCompletes(s, ok) /\ UNCHANGED <<disk, backupVars, restoreVars, cleanupVars, lifeVars>>
  \/ \E s \in DOMAIN ops : OpSettled(s) /\ UNCHANGED <<disk, backupVars, restoreVars, cleanupVars, lifeVars>>

SpecOverlap == InitOverlap /\ [][NextOverlap]_vars

----------------------------------------------------------------------------
(* Specification of the retention sweep: one cleanupOldBackups call over a
   backup root holding backups of several ages *)

\* Ages of the backups, in days
Ages == {5, 20, 40}

\* What a slot of the backup root holds: nothing, a directory without a
\* manifest, a directory whose manifest does not parse, a backup directory or
\* an archive of some age, or a directory of some age whose manifest has no
\* timestamp
SlotKinds ==
  {<<"absent", 0>>, <<"empty", 0>>, <<"invalid", 0>>} \cup ({"dir", "zip", "undated"} \X Ages)

ManifestOfAge(age) == [NewBackupInfo EXCEPT !.timestamp = 0 - age]

\* A manifest without its timestamp field
UndatedManifest ==
  [f \in DOMAIN NewBackupInfo \ {"timestamp"} |-> NewBackupInfo[f]]

SlotEntry(kind) ==
  CASE kind[1] = "zip" -> [files |-> EmptyFiles, mtime |-> 0 - kind[2]]
    [] kind[1] = "dir" ->
         [files |-> WriteFile(EmptyFiles, MetadataFile, ManifestOfAge(kind[2])),
          mtime |-> 0 - kind[2]]
    [] kind[1] = "undated" ->
         [files |-> WriteFile(EmptyFiles, MetadataFile, UndatedManifest), mtime |-> 0 - kind[2]]
    [] kind[1] = "empty" -> [files |-> EmptyFiles, mtime |-> 0]
    [] OTHER -> [files |-> WriteFile(EmptyFiles, MetadataFile, Garbage), mtime |-> 0]

SlotPath(n, kind) == [base |-> "c1-d1", n |-> n, zip |-> kind[1] = "zip"]

DiskOf(slots) ==
  LET present == {n \in DOMAIN slots : slots[n][1] # "absent"}
  IN [p \in {SlotPath(n, slots[n]) : n \in present} |->
        SlotEntry(slots[CHOOSE n \in present : SlotPath(n, slots[n]) = p])]

\* The retentionDays a caller passes, and the configured backupRetention
RetentionArgs == {NotGiven, Given(0), Given(30)}
ConfiguredRetentions == {NotGiven, Given(15)}

InitCleanup ==
  /\ \E slots \in [1..MaxDiskBackups -> SlotKinds] : disk = DiskOf(slots)
  /\ srcDb = <<>>
  /\ BackupIdle
  /\ RestoreIdle
  /\ SchedIdle
  /\ cfgRetention \in ConfiguredRetentions
  /\ cpc = "idle"
  /\ cargs = NotGiven
  /\ clisted = <<>>
  /\ ccands = <<>>
  /\ cidx = 1
  /\ cdeleted = {}
  /\ cresult = 0 - 1

NextCleanup ==
  \/ \E retentionDays \in RetentionArgs, ok \in BOOLEAN :
       CleanupStart(retentionDays, ok) /\ UNCHANGED <<backupVars, restoreVars, schedVars>>
  \/ \E ok \in BOOLEAN :
       CleanupDelete(ok) /\ UNCHANGED <<backupVars, restoreVars, schedVars>>
  \/ CleanupSettled /\ UNCHANGED <<backupVars, restoreVars, schedVars>>

SpecCleanup == InitCleanup /\ [][NextCleanup]_vars

----------------------------------------------------------------------------
(* Specification of a restoreBackup call over a backup root that holds two
   archives, with a second restoreBackup call and a retention sweep running
   meanwhile, onto a target database that may hold documents (SpecRestore) *)

\* The exports of the two backups
UsersExport == CollectionData([name |-> "users", docs |-> 2, indexes |-> 2])
OrdersExport == CollectionData([name |-> "orders", docs |-> 1, indexes |-> 1])

\* A backup of 40 days ago with the users collection, and one of 5 days ago
\* with the orders collection, as createBackup writes them
FirstBackup ==
  [files |-> WriteFile(WriteFile(EmptyFiles, CollectionFile("users"), UsersExport),
                       MetadataFile, PushSuccess(ManifestOfAge(40), UsersExport)),
   mtime |-> 0 - 40]

SecondBackup ==
  [files |-> WriteFile(WriteFile(EmptyFiles, CollectionFile("orders"), OrdersExport),
                       MetadataFile, PushSuccess(ManifestOfAge(5), OrdersExport)),
   mtime |-> 0 - 5]

\* The backup root: the two archives, and possibly the directory of the first
\* backup as well, left by a createBackup whose removal of it failed
RestoreDisks ==
  LET archives == PutEntry(PutEntry(EmptyFiles, ArchivePath(BackupPath(1)), FirstBackup),
                           ArchivePath(BackupPath(2)), SecondBackup)
  IN {archives, PutEntry(archives, BackupPath(1), FirstBackup)}

\* The target database: empty, or with documents in the users collection
TargetDatabases ==
  {[c \in CollNames |-> 0], [c \in CollNames |-> IF c = "users" THEN 3 ELSE 0]}

InitRestore ==
  /\ disk \in RestoreDisks
  /\ srcDb = <<>>
  /\ BackupIdle
  /\ tgtDb \in TargetDatabases
  /\ nRestores = 0
  /\ rpc = "idle"
  /\ rargs = [path |-> TempDir, dropExisting |-> FALSE]
  /\ rdir = TempDir
  /\ rinfo = NewBackupInfo
  /\ ridx = 1
  /\ rrestored = <<>>
  /\ rfailed = FALSE
  /\ rerr = None
  /\ rfailures = {}
  /\ rtouched = {}
  /\ rother = NoOther
  /\ SchedIdle
  /\ CleanupIdle

NextRestore ==
  \/ \E path \in DOMAIN disk, dropExisting, ok, created \in BOOLEAN :
       RestoreStart(path, dropExisting, ok, created) /\ UNCHANGED <<backupVars, schedVars, cleanupVars>>
  \/ \E outcome \in {"ok", "readFail", "resolveFail"} :
       RestoreManifest(outcome) /\ UNCHANGED <<backupVars, schedVars, cleanupVars>>
  \/ \E outcome \in {"ok", "readFail", "insertFail", "indexFail"}, inserted \in {0, 1} :
       RestoreCollection(outcome, inserted) /\ UNCHANGED <<backupVars, schedVars, cleanupVars>>
  \/ \E ok \in BOOLEAN : RestoreCleanup(ok) /\ UNCHANGED <<backupVars, schedVars, cleanupVars>>
  \/ RestoreSettled /\ UNCHANGED <<backupVars, schedVars, cleanupVars>>
  \/ \E path \in DOMAIN disk :
       OtherRestoreExtract(path) /\ UNCHANGED <<backupVars, schedVars, cleanupVars>>
  \/ \E cleaned \in BOOLEAN :
       OtherRestoreEnd(cleaned) /\ UNCHANGED <<backupVars, schedVars, cleanupVars>>
  \/ \E ok \in BOOLEAN :
       CleanupStart(Given(DefaultRetention), ok) /\ UNCHANGED <<backupVars, restoreVars, schedVars>>
  \/ \E ok \in BOOLEAN :
       CleanupDelete(ok) /\ UNCHANGED <<backupVars, restoreVars, schedVars>>
  \/ CleanupSettled /\ UNCHANGED <<backupVars, restoreVars, schedVars>>

SpecRestore == InitRestore /\ [][NextRestore]_vars

----------------------------------------------------------------------------
(* Properties of createBackup and restoreBackup, checked under SpecBackup *)

\* The names of a sequence of collection records
RecordNames(records) == [i \in DOMAIN records |-> records[i].name]

\* C1: the manifest createBackup returns holds exactly one record per enumerated
\* collection, in enumeration order, whichever collections failed to snapshot;
\* an empty database gives collections = [] and totalDocuments = 0.
C1_OneRecordPerCollection ==
  bpc = "resolved" =>
    /\ Len(bresult.info.collections) = Len(srcDb)
    /\ RecordNames(bresult.info.collections) = RecordNames(srcDb)
    /\ (Len(srcDb) = 0 =>
          bresult.info.collections = <<>> /\ bresult.info.totalDocuments = 0)

\* C1 witness: a two-collection backup resolved although a collection failed
C1_Witness ==
  bpc = "resolved" /\ Len(srcDb) = 2 /\ bfailed # {}

\* C2: a collection whose document read or index listing throws gets the record
\* {name, error: the thrown message}; the loop goes on to every later collection;
\* createBackup is rejected by no collection failure, and the count it resolves
\* with includes the failed collections.
C2_FailureIsRecordedAndIsolated ==
  /\ \A f \in bfailed :
        /\ Len(binfo.collections) >= f[1]
        /\ binfo.collections[f[1]] = [name |-> bcolls[f[1]], error |-> f[2]]
  /\ (bpc \in {"manifest", "compress", "rmdir", "resolved"} =>
        Len(binfo.collections) = Len(bcolls))
  /\ (bpc = "rejected" /\ bfailed # {} =>
        /\ berr \in {"manifest", "compress", "rmdir"}
        /\ Len(binfo.collections) = Len(bcolls))
  /\ (bpc = "resolved" => bresult.collections = Len(srcDb))

\* C2 witness: the first of two collections failed to list its indexes, the
\* second was written, and createBackup resolved
C2_Witness ==
  /\ bpc = "resolved"
  /\ <<1, IndexError>> \in bfailed
  /\ Len(bresult.info.collections) = 2
  /\ ~IsFailure(bresult.info.collections[2])

\* The restore in hand reads the backup the resolved createBackup returned
RestoresTheBackup ==
  /\ nBackups = 1
  /\ bresult.name = 1
  /\ rargs.path = bresult.path

\* C4 (as the code is meant to behave): restoring the backup of a database whose
\* collections all snapshot successfully, with no failing call during the
\* restore, returns one restoredCollections entry per collection, each with the
\* document count read by createBackup.
C4_RoundTrip ==
  (rpc = "resolved" /\ RestoresTheBackup /\ bfailed = {} /\ ~rfailed) =>
    /\ Len(rrestored) = Len(srcDb)
    /\ \A i \in DOMAIN rrestored :
          /\ rrestored[i].name = srcDb[i].name
          /\ rrestored[i].documents = srcDb[i].docs

\* C5 (as the code is meant to behave): once a restore from an archive has
\* settled, and neither the extraction nor the removal itself failed, the
\* scratch directory is gone.
C5_ScratchDirectoryRemoved ==
  (/\ rpc \in {"resolved", "rejected"}
   /\ EndsWithZip(rargs.path)
   /\ rerr \notin {"extract", "cleanup"}) =>
    TempDir \notin DOMAIN disk

\* The names of the records of the loaded manifest that carry an error
FailureNames ==
  {rinfo.collections[i].name :
     i \in {j \in DOMAIN rinfo.collections : "error" \in DOMAIN rinfo.collections[j]}}

\* The names of the records of the loaded manifest that carry document data
SuccessNames ==
  {rinfo.collections[i].name :
     i \in {j \in DOMAIN rinfo.collections : "error" \notin DOMAIN rinfo.collections[j]}}

\* C13: restoreBackup drops, inserts into and indexes no collection whose
\* manifest record is a Failure record, restoredCollections has no entry for
\* one, and every entry of restoredCollections names a Success record.
C13_FailureRecordsAreSkipped ==
  rpc # "idle" =>
    /\ rtouched \cap FailureNames = {}
    /\ \A i \in DOMAIN rrestored :
          /\ rrestored[i].name \notin FailureNames
          /\ rrestored[i].name \in SuccessNames

\* C13 witness: a restore with dropExisting resolved over a manifest with a
\* Failure record and a Success record, which it restored
C13_Witness ==
  /\ rpc = "resolved" /\ rargs.dropExisting
  /\ FailureNames # {}
  /\ Len(rrestored) = 1

\* The records of the manifest whose restore logged one of the given failures
FailedAt(steps) == {f[1] : f \in {g \in rfailures : g[2] \in steps}}

\* The manifest is loaded and the target database resolved
ManifestLoaded ==
  \/ rpc \in {"collections", "cleanup", "resolved"}
  \/ rpc = "rejected" /\ rerr \notin {"extract", "manifest", "resolve"}

\* The Success records restored so far, but those at the given positions
RECURSIVE NamesBut(_, _, _)
NamesBut(records, i, skipped) ==
  IF i > Len(records) THEN <<>>
  ELSE IF "error" \in DOMAIN records[i] \/ i \in skipped
    THEN NamesBut(records, i + 1, skipped)
    ELSE <<records[i].name>> \o NamesBut(records, i + 1, skipped)

\* C14 (amended): once the manifest is loaded no failure on a collection makes
\* restoreBackup reject; a collection whose export cannot be read or whose
\* insert fails is omitted from restoredCollections, a collection one of whose
\* indexes cannot be recreated is still listed, and every other Success
\* record is restored.
C14_CollectionFailuresAreIsolated ==
  ManifestLoaded =>
    /\ (rpc = "rejected" => rerr = "cleanup")
    /\ (rpc \in {"cleanup", "resolved"} =>
          RecordNames(rrestored) = NamesBut(rinfo.collections, 1, FailedAt({"read", "insert"})))

\* C14 as stated: a collection with a failure while reading, inserting or
\* indexing is omitted from restoredCollections.
C14_EveryFailingCollectionOmitted ==
  ManifestLoaded =>
    /\ (rpc = "rejected" => rerr = "cleanup")
    /\ (rpc \in {"cleanup", "resolved"} =>
          RecordNames(rrestored) =
            NamesBut(rinfo.collections, 1, FailedAt({"read", "insert", "index"})))

\* C14 witness: a restore resolved after the insert of one collection and an
\* index of another had failed
C14_Witness ==
  /\ rpc = "resolved"
  /\ FailedAt({"insert"}) # {}
  /\ FailedAt({"index"}) # {}

\* The uncompressed directory of an archive
DirectoryOf(archive) == [archive EXCEPT !.zip = FALSE]

\* C15: a restore from the archive made of a backup directory returns the
\* restoredCollections that a restore from the directory returns, whatever an
\* earlier restore left in the scratch directory.
C15_ArchiveRestoresAsDirectory ==
  (rpc = "resolved" /\ ~rfailed) =>
    /\ (~EndsWithZip(rargs.path) =>
          rrestored = RestoredFromRecords(disk[rargs.path].files[MetadataFile].collections,
                                          disk[rargs.path].files))
    /\ ((/\ EndsWithZip(rargs.path)
         /\ DirectoryOf(rargs.path) \in DOMAIN disk
         /\ disk[rargs.path].files = disk[DirectoryOf(rargs.path)].files
         /\ MetadataFile \in DOMAIN disk[rargs.path].files) =>
          rrestored =
            RestoredFromRecords(disk[DirectoryOf(rargs.path)].files[MetadataFile].collections,
                                disk[DirectoryOf(rargs.path)].files))

\* C15 witness: a restore from an archive whose directory is still there
\* resolved with a collection restored
C15_Witness ==
  /\ rpc = "resolved" /\ ~rfailed
  /\ EndsWithZip(rargs.path)
  /\ DirectoryOf(rargs.path) \in DOMAIN disk
  /\ disk[rargs.path].files = disk[DirectoryOf(rargs.path)].files
  /\ Len(rrestored) >= 1

\* The directory of the backup in hand holds the manifest and the export of
\* every collection recorded as written
DirectoryIntact ==
  /\ BackupPath(nBackups) \in DOMAIN disk
  /\ MetadataFile \in DOMAIN disk[BackupPath(nBackups)].files
  /\ disk[BackupPath(nBackups)].files[MetadataFile] = binfo
  /\ \A i \in DOMAIN binfo.collections :
        "error" \notin DOMAIN binfo.collections[i] =>
          CollectionFile(binfo.collections[i].name) \in DOMAIN disk[BackupPath(nBackups)].files

\* C16: createBackup removes the uncompressed directory only when the archive
\* has been written to its end; when the archive layer reports an error
\* createBackup rejects and the directory is still there with its files.
C16_DirectoryOutlivesFailedArchive ==
  /\ [](bpc = "rejected" /\ berr = "compress" => DirectoryIntact)
  /\ [][(bpc # "idle" /\ BackupPath(nBackups) \in DOMAIN disk
           /\ BackupPath(nBackups) \notin DOMAIN disk') =>
          /\ bpc = "rmdir"
          /\ ArchivePath(BackupPath(nBackups)) \in DOMAIN disk
          /\ disk[ArchivePath(BackupPath(nBackups))].files = disk[BackupPath(nBackups)].files]_vars

\* C16 witness: createBackup rejected on an archive error that left a partial archive
C16_Witness ==
  /\ bpc = "rejected" /\ berr = "compress"
  /\ ArchivePath(BackupPath(nBackups)) \in DOMAIN disk
  /\ Len(binfo.collections) = 2

----------------------------------------------------------------------------
(* Properties of the scheduler, checked under SpecSched *)

\* The in-memory entry of a job id is the schedule (c, d, p, o) on a running task
ActiveAs(jobId, def) ==
  /\ jobId \in DOMAIN scheduledJobs
  /\ scheduledJobs[jobId].cluster = def.cluster
  /\ scheduledJobs[jobId].database = def.database
  /\ scheduledJobs[jobId].pattern = def.pattern
  /\ scheduledJobs[jobId].options = def.options
  /\ tasks[scheduledJobs[jobId].job] = "running"

\* C3: a scheduleBackup(c, d, p2, o2) that finds a schedule for (c, d) resolves
\* with the id, leaves the one entry of the id with p2 and o2 on a running
\* task, and has stopped the task installed before.
C3_RescheduleReplaces ==
  \A s \in DOMAIN ops :
    (/\ ops[s].kind = "schedule"
     /\ ops[s].replaced # 0
     /\ ops[s].args.pattern \in ValidPatterns
     /\ ops[s].pc \in {"resolved", "rejected"}
     /\ ops[s].err # "save") =>
      /\ ops[s].pc = "resolved"
      /\ ops[s].result = "id"
      /\ ActiveAs(ops[s].id, ops[s].args)
      /\ scheduledJobs[ops[s].id].job # ops[s].replaced
      /\ tasks[ops[s].replaced] = "stopped"

\* A step in which slot s takes a call of the given kind
Calls(s, kind) == ops[s].pc = "idle" /\ ops'[s].kind = kind

\* C8: unscheduleBackup of a scheduled id returns true, and when it has resolved
\* the id is in neither the in-memory nor the persisted table (settings and
\* file) and its task is stopped; of an unknown id it returns false at once and
\* changes no table and no task.
C8_Unschedule ==
  /\ [](\A s \in DOMAIN ops :
          ops[s].kind = "unschedule" =>
            /\ (ops[s].pc = "rejected" => ops[s].err = "save")
            /\ (ops[s].pc = "resolved" /\ ops[s].task # 0 =>
                  /\ ops[s].result = "true"
                  /\ ops[s].id \notin DOMAIN scheduledJobs
                  /\ ops[s].id \notin DOMAIN settings.table
                  /\ ops[s].id \notin DOMAIN cfgFile.table
                  /\ tasks[ops[s].task] = "stopped")
            /\ (ops[s].pc = "resolved" /\ ops[s].task = 0 => ops[s].result = "false"))
  /\ [][\A s \in DOMAIN ops :
          Calls(s, "unschedule") =>
            IF ops'[s].id \in DOMAIN scheduledJobs
              THEN ops'[s].pc = "saving" /\ ops'[s].task = scheduledJobs[ops'[s].id].job
              ELSE /\ ops'[s].pc = "resolved" /\ ops'[s].task = 0
                   /\ UNCHANGED <<scheduledJobs, tasks, settings, cfgFile>>]_vars

\* C8 witness: an unscheduleBackup of a scheduled id has resolved
C8_Witness ==
  \E s \in DOMAIN ops :
    ops[s].kind = "unschedule" /\ ops[s].pc = "resolved" /\ ops[s].result = "true"

\* C9: when scheduleBackup(c, d, p, o) has resolved, the persisted table maps
\* the id to {c, d, p, o} and the file holds the table as it is in the store;
\* the call changes no other persisted entry.
C9_SchedulePersisted ==
  /\ [](\A s \in DOMAIN ops :
          (ops[s].kind = "schedule" /\ ops[s].pc = "resolved") =>
            /\ settings.defined
            /\ ops[s].id \in DOMAIN settings.table
            /\ settings.table[ops[s].id] = ops[s].args
            /\ cfgFile = settings
            /\ ops[s].id = JobId(ops[s].args.cluster, ops[s].args.database))
  /\ [][\A s \in DOMAIN ops :
          (ops[s].kind = "schedule" \/ Calls(s, "schedule")) =>
            \A k \in (DOMAIN settings.table \cup DOMAIN settings'.table) \ {ops'[s].id} :
              /\ k \in DOMAIN settings.table
              /\ k \in DOMAIN settings'.table
              /\ settings'.table[k] = settings.table[k]]_vars

\* C9 witness: a scheduleBackup has resolved beside another persisted entry
C9_Witness ==
  \E s \in DOMAIN ops :
    /\ ops[s].kind = "schedule" /\ ops[s].pc = "resolved"
    /\ Cardinality(DOMAIN cfgFile.table) >= 2

\* A persisted entry scheduleBackup can install
Installable(e) == IsDefinition(e) /\ e.pattern \in ValidPatterns

\* C10: initialize() replays every persisted entry through scheduleBackup; an
\* entry that cannot be installed is logged and skipped; nothing but the
\* creation of the backup root makes initialize reject; when it has resolved
\* every installable persisted entry is active.
C10_StartupReplay ==
  \A s \in DOMAIN ops :
    ops[s].kind = "initialize" =>
      /\ (ops[s].pc = "rejected" => ops[s].err = "mkdir")
      /\ (ops[s].pc = "resolved" =>
            /\ ops[s].pending = {}
            /\ ops[s].logged >=
                 Cardinality({k \in DOMAIN ops[s].entries : ~Installable(ops[s].entries[k])})
            /\ \A k \in DOMAIN ops[s].entries :
                  Installable(ops[s].entries[k]) =>
                    ActiveAs(JobId(ops[s].entries[k].cluster, ops[s].entries[k].database),
                             ops[s].entries[k]))

\* C10 witness: initialize resolved at startup over a table with an entry that
\* could not be installed and one that it installed
C10_Witness ==
  \E s \in DOMAIN ops :
    /\ ops[s].kind = "initialize" /\ ops[s].pc = "resolved"
    /\ \E k \in DOMAIN ops[s].entries : ~Installable(ops[s].entries[k])
    /\ \E k \in DOMAIN ops[s].entries :
          /\ Installable(ops[s].entries[k])
          /\ k \in DOMAIN scheduledJobs
          /\ scheduledJobs[k].job = Len(tasks)
    /\ Len(tasks) = 1

----------------------------------------------------------------------------
(* Properties of the scheduler over a restart, checked under SpecLife, and
   with the firings, checked under SpecFire *)

\* C11: once the process has restarted and MongoDBManager.initialize() has
\* resolved, every schedule whose scheduleBackup resolved with no
\* unscheduleBackup since is active again with its pattern and options.
C11_SchedulesSurviveRestart ==
  (restarted /\ mgr = "resolved") =>
    \A k \in DOMAIN kept : ActiveAs(k, kept[k])

\* The entry of the table that holds the given task
EntryOf(task) == scheduledJobs[closures[task].id]

\* C12: a firing calls createBackup with the cluster, database and options of
\* its entry; a rejected createBackup is logged by the callback; and no step
\* of a firing, successful or failed, changes the schedule table, a trigger,
\* the persisted table or a schedule operation.
C12_FiringLeavesScheduleAlone ==
  /\ [](firing.pc = "done" => firing.logged \in {"completed", "failed"})
  /\ [][firing' # firing =>
          /\ UNCHANGED <<scheduledJobs, tasks, settings, cfgFile, ops, mgr>>
          /\ (firing'.pc = "backup" =>
                /\ firing'.args.id \in DOMAIN scheduledJobs
                /\ EntryOf(firing'.task).job = firing'.task
                /\ firing'.args.cluster = EntryOf(firing'.task).cluster
                /\ firing'.args.database = EntryOf(firing'.task).database
                /\ firing'.args.options = EntryOf(firing'.task).options)]_vars

\* C12 witness: after a firing whose createBackup rejected, the same task has
\* fired again and that createBackup resolved
C12_Witness ==
  /\ nFires = 2
  /\ firing.pc = "done" /\ firing.logged = "completed"
  /\ BackupPath(1) \in DOMAIN disk
  /\ MetadataFile \notin DOMAIN disk[BackupPath(1)].files
  /\ Len(tasks) = 1

\* C20: every running trigger is the one held by the in-memory entry of its
\* schedule id, so each id has at most one running trigger.
C20_OneTriggerPerId ==
  \A t \in DOMAIN tasks :
    tasks[t] = "running" =>
      /\ closures[t].id \in DOMAIN scheduledJobs
      /\ scheduledJobs[closures[t].id].job = t

\* C20 witness: a schedule call on a scheduled id has failed, an id has been
\* unscheduled, and a trigger is running
C20_Witness ==
  /\ \E s \in DOMAIN ops : ops[s].kind = "schedule" /\ ops[s].err = "TypeError"
  /\ \E t \in DOMAIN tasks : tasks[t] = "stopped"
  /\ \E t \in DOMAIN tasks : tasks[t] = "running"
  /\ initCalled
  /\ nFires > 0

----------------------------------------------------------------------------
(* Properties of the retention sweep, checked under SpecCleanup *)

\* C6: cleanupOldBackups returns the number of backups whose deletion succeeded.
C6_CountsRemovedBackups ==
  cpc = "resolved" => cresult = Cardinality(cdeleted)

\* The paths of the listed backups created before now minus r days
OlderThan(r) ==
  {clisted[i].path :
     i \in {j \in DOMAIN clisted : clisted[j].dated /\ clisted[j].created < 0 - r}}

\* The paths whose deletion the sweep has attempted
Attempted == {ccands[i].path : i \in 1..(cidx - 1)}

\* C7: cleanupOldBackups(r) attempts the deletion of every listed backup
\* created before now minus r days, whatever deletions fail, and deletes no
\* backup created at or after that cutoff.
C7_SweepsExactlyTheOldBackups ==
  (cpc = "resolved" /\ cargs.given) =>
    /\ Attempted = OlderThan(cargs.days)
    /\ cdeleted \subseteq OlderThan(cargs.days)

\* C7 for a retention other than 0: the same statement, which the code meets
C7_ForPositiveRetention ==
  (cpc = "resolved" /\ cargs.given /\ cargs.days # 0) =>
    /\ Attempted = OlderThan(cargs.days)
    /\ cdeleted \subseteq OlderThan(cargs.days)

\* C7 scenario: of backups aged 40, 20 and 5 days a sweep with r = 30 has the
\* 40-day backup as its one candidate
C7_ScenarioFortyTwentyFive ==
  (/\ cpc = "resolved" /\ cargs = Given(30)
   /\ {clisted[i].created : i \in DOMAIN clisted} = {0 - 40, 0 - 20, 0 - 5}
   /\ Len(clisted) = 3) =>
    /\ Len(ccands) = 1
    /\ ccands[1].created = 0 - 40
    /\ cdeleted \subseteq {ccands[1].path}

\* cleanupOldBackups has the listing and has deleted nothing yet
JustListed ==
  \/ cpc = "deleting" /\ cidx = 1
  \/ cpc = "resolved" /\ ccands = <<>>

\* The directories of the backup root whose manifest is there and parses
ValidDirectories ==
  {path \in DOMAIN disk :
     /\ ~EndsWithZip(path)
     /\ MetadataFile \in DOMAIN disk[path].files
     /\ disk[path].files[MetadataFile] # Garbage}

CreationTime(desc) == IF desc.dated THEN desc.created ELSE disk[desc.path].mtime

\* C18: listBackups returns its descriptors by creation time, most recent
\* first, the creation time of a directory whose manifest has no timestamp
\* being its modification time.
C18_NewestFirst ==
  JustListed =>
    \A i, j \in DOMAIN clisted :
      i < j => CreationTime(clisted[i]) >= CreationTime(clisted[j])

\* C18 for entries that all have a creation time of their own: most recent first
C18_NewestFirstWhenDated ==
  (JustListed /\ \A i \in DOMAIN clisted : clisted[i].dated) =>
    \A i, j \in DOMAIN clisted : i < j => clisted[i].created >= clisted[j].created

\* The retention the caller asked for: retentionDays when passed, else the
\* configured backupRetention, else the default
RequestedRetention ==
  IF cargs.given THEN cargs.days
  ELSE IF cfgRetention.given THEN cfgRetention.days
  ELSE DefaultRetention

\* C19: the sweep takes for old the backups created before now minus the
\* retentionDays passed, 0 included, and uses the configured backupRetention
\* only when none is passed.
C19_PassedRetentionIsUsed ==
  JustListed =>
    ccands = SelectSeq(clisted, LAMBDA b : b.dated /\ b.created < 0 - RequestedRetention)

----------------------------------------------------------------------------
(* Totals of the manifest, checked under SpecBackup *)

\* The sum of a field over the Success records of a manifest
RECURSIVE SumOverSuccess(_, _)
SumOverSuccess(records, field) ==
  IF records = <<>> THEN 0
  ELSE (IF IsFailure(Head(records)) THEN 0 ELSE Head(records)[field])
       + SumOverSuccess(Tail(records), field)

\* C21: in the manifest createBackup resolves with, totalDocuments is the sum
\* of documentCount and totalSize the sum of size over the Success records, no
\* record has both a document count and an error, and the size of the result
\* is totalSize, with compression and without.
C21_TotalsAreSums ==
  bpc = "resolved" =>
    /\ bresult.info.totalDocuments = SumOverSuccess(bresult.info.collections, "documentCount")
    /\ bresult.info.totalSize = SumOverSuccess(bresult.info.collections, "size")
    /\ \A i \in DOMAIN bresult.info.collections :
         ~("error" \in DOMAIN bresult.info.collections[i]
           /\ "documentCount" \in DOMAIN bresult.info.collections[i])
    /\ bresult.size = bresult.info.totalSize

\* A compressing createBackup has resolved with a manifest that holds a Failure
\* record and a Success record with documents
C21_Witness ==
  /\ bpc = "resolved"
  /\ bopts
  /\ \E i, j \in DOMAIN bresult.info.collections :
       /\ IsFailure(bresult.info.collections[i])
       /\ ~IsFailure(bresult.info.collections[j])
       /\ bresult.info.collections[j].documentCount > 0

----------------------------------------------------------------------------
(* What a rejected createBackup leaves behind, checked under SpecBackup *)

\* C28: when createBackup rejects, every directory or archive it created that
\* is still under the backup root is reported by listBackups.
C28_RejectedLeavesNothingUnlisted ==
  bpc = "rejected" =>
    \A p \in {BackupPath(nBackups), ArchivePath(BackupPath(nBackups))} \cap DOMAIN disk :
       p \in Listed(disk)

----------------------------------------------------------------------------
(* createBackup over a changing source database and the settling of
   compressBackup, checked under SpecCreate *)

\* A turn of the collection loop is taken
CollectionTurn == bpc = "collections" /\ bidx' = bidx + 1

\* C22: the collections are enumerated once. A collection created while
\* createBackup runs is not in the manifest it resolves with; the turn of a
\* collection that has been dropped by then pushes a Failure record for it
\* and createBackup goes on.
C22_EnumeratedOnce ==
  /\ [](bpc = "resolved" =>
         /\ RecordNames(bresult.info.collections) = bcolls
         /\ \A name \in SourceNames \ {bcolls[i] : i \in DOMAIN bcolls} :
              \A i \in DOMAIN bresult.info.collections :
                 bresult.info.collections[i].name # name)
  /\ [][(CollectionTurn /\ bcolls[bidx] \notin SourceNames) =>
          /\ Len(binfo'.collections) = bidx
          /\ IsFailure(binfo'.collections[bidx])
          /\ binfo'.collections[bidx].name = bcolls[bidx]
          /\ bpc' # "rejected"]_vars

\* createBackup has resolved; one of the enumerated collections had been
\* dropped before its turn and has a Failure record, and the source database
\* holds a collection created after the enumeration
C22_Witness ==
  /\ bpc = "resolved"
  /\ SourceNames \ {bcolls[i] : i \in DOMAIN bcolls} # {}
  /\ \E i \in DOMAIN bcolls :
       /\ bcolls[i] \notin SourceNames
       /\ <<i, NamespaceError>> \in bfailed
       /\ IsFailure(bresult.info.collections[i])

\* C30: every compressBackup call settles, whatever fails, so that the
\* createBackup awaiting it goes on or rejects.
C30_CompressSettles == (bpc = "compress") ~> (bpc \in {"rmdir", "rejected"})

\* compressBackup settles whenever its output stream does not fail
C30_SettlesUnlessStreamFails ==
  (bpc = "compress") ~> (bpc \in {"rmdir", "rejected", "pending"})

----------------------------------------------------------------------------
(* The schedule table in memory and in the configuration file *)

\* C24 (under SpecLife, before the restart): whenever no schedule operation
\* is in flight, the ids of the in-memory schedule table are the ids of the
\* persisted one, whatever calls resolved or rejected before.
C24_TablesAgreeWhenIdle ==
  (~restarted /\ \A s \in DOMAIN ops : ops[s].pc = "idle") =>
    DOMAIN scheduledJobs = DOMAIN cfgFile.table

\* The call of slot s went through a save of the configuration and resolved
SavedAndResolved(s) ==
  /\ ops[s].pc = "resolved"
  /\ ops[s].kind \in {"schedule", "unschedule"}
  /\ ops[s].result # "false"

\* C25 (under SpecOverlap): once two schedule operations on different ids have
\* both resolved, the persisted table holds what the in-memory configuration
\* holds and has the ids of the in-memory schedule table.
C25_OverlappingSavesBothPersist ==
  (SavedAndResolved(1) /\ SavedAndResolved(2) /\ ops[1].id # ops[2].id) =>
    /\ cfgFile = settings
    /\ DOMAIN cfgFile.table = DOMAIN scheduledJobs

\* C29 (under SpecSched): the entry a scheduleBackup call finds or leaves
\* under its id is a schedule of the pair it was called with.
C29_IdsAreNotShared ==
  \A s \in DOMAIN ops :
    (ops[s].kind = "schedule" /\ ops[s].id \in DOMAIN scheduledJobs) =>
      /\ scheduledJobs[ops[s].id].cluster = ops[s].args.cluster
      /\ scheduledJobs[ops[s].id].database = ops[s].args.database

----------------------------------------------------------------------------
(* Properties of restoreBackup next to other calls, checked under SpecRestore *)

\* A turn of the restore loop is taken
RestoreTurn == rpc = "collections" /\ ridx' = ridx + 1

\* C23: a turn of the restore loop empties the target collection of its record
\* only when dropExisting is set, and touches no other collection. Without
\* dropExisting no document of the target is lost, and the collection of a
\* restored record holds the documents it had and the restored ones.
C23_DropsOnlyWhenAsked ==
  [][RestoreTurn =>
      LET name == rinfo.collections[ridx].name
      IN /\ \A c \in CollNames \ {name} : tgtDb'[c] = tgtDb[c]
         /\ ~rargs.dropExisting => tgtDb'[name] >= tgtDb[name]
         /\ (~rargs.dropExisting /\ Len(rrestored') = Len(rrestored) + 1) =>
              tgtDb'[name] = tgtDb[name] + rrestored'[Len(rrestored')].documents
         /\ (rargs.dropExisting /\ Len(rrestored') = Len(rrestored) + 1) =>
              tgtDb'[name] = rrestored'[Len(rrestored')].documents]_vars

\* A restore without dropExisting has resolved; a collection it restored
\* documents into holds more documents than were restored
C23_Witness ==
  /\ rpc = "resolved"
  /\ ~rargs.dropExisting
  /\ \E i \in DOMAIN rrestored :
       /\ rrestored[i].documents > 0
       /\ tgtDb[rrestored[i].name] > rrestored[i].documents

\* C26: a restoreBackup of an archive that resolved while a second
\* restoreBackup of another archive was running, no sweep being run and no
\* call on the database or the files failing, has read its own archive's
\* manifest and returns what its own archive restores.
C26_ConcurrentRestoresIndependent ==
  (/\ rpc = "resolved"
   /\ EndsWithZip(rargs.path)
   /\ ~rfailed
   /\ rother.pc # "idle"
   /\ rother.path # rargs.path
   /\ cpc = "idle" /\ cresult = 0 - 1) =>
    /\ rinfo = disk[rargs.path].files[MetadataFile]
    /\ rrestored = RestoredFromRecords(disk[rargs.path].files[MetadataFile].collections,
                                       disk[rargs.path].files)

\* C27: listBackups, as called by the sweep, describes no scratch directory
\* and no backup twice, and the sweep does not delete the scratch directory
\* of a restore in progress.
C27_ListsEachBackupOnce ==
  /\ \A i \in DOMAIN clisted : clisted[i].path # TempDir
  /\ \A i, j \in DOMAIN clisted : i # j => clisted[i].name # clisted[j].name
  /\ (rpc \in {"manifest", "collections", "cleanup"} /\ EndsWithZip(rargs.path)) =>
       TempDir \notin cdeleted

====
